---- MODULE Spec2Model ----
(***************************************************************************)
(* Model of the concurrent code-ingestion pipeline of LightRAGCoder:       *)
(* code_to_storage in src/repo_graphrag/processors/code_processor.py.      *)
(*                                                                         *)
(* The pipeline runs on one asyncio event loop, so a task gives up control *)
(* only at an await that really suspends.  The steps of the model are the  *)
(* stretches of code between two such suspension points:                   *)
(*   - Queue.get suspends while the queue is empty;                        *)
(*   - Queue.put suspends while the queue is full; both queues are built   *)
(*     with the default maxsize 0, so put never suspends;                  *)
(*   - Event.wait suspends while the event is not set;                     *)
(*   - process_file and store_file_result are calls to collaborators that  *)
(*     may suspend and may raise: a call in progress is a state of the     *)
(*     task, and its completion (return or raise) is a separate step.      *)
(* The i-th file of code_dict has the path <<"repo", i>> and one of a few   *)
(* byte contents; a work item, a FileResult and the sentinel None are      *)
(* records.                                                                *)
(***************************************************************************)
EXTENDS Integers, Sequences, FiniteSets, Bags, TLC

\* Bounds of the model.
MaxFiles == 2
MaxParallel == 2
MaxCallers == 2
MaxTexts == 2
MaxCapacity == 2

\* Python's None: the sentinel put on a queue to stop its consumer
\* (lines 207, 326) and the value code_to_storage returns.
None == [none |-> TRUE]

\* asyncio.Queue() without argument: maxsize 0, "the queue size is infinite".
QueueMaxsize == 0

VARIABLES
    parallel_num,      \* number of workers (config.settings.parallel_num)
    total_files,       \* len(code_dict)
    processing_queue,  \* work queue: files, then sentinels
    storage_queue,     \* storage queue: FileResults, then one sentinel
    processed_count,
    stored_count,
    processing_done,   \* asyncio.Event
    storage_done,      \* asyncio.Event
    producer_task,     \* "none" | "ready" | "finished"
    worker_tasks,      \* worker id -> [pc, item, err]
    storage_task,      \* storage task id -> [pc, result, err]
    progress_task,     \* reporter task id -> [pc, must_cancel]
    driver,            \* position of code_to_storage itself
    process_errors,    \* work items whose process_file call raised
    store_errors,      \* FileResults whose store_file_result call raised
    code_dict,         \* the input: file number -> file content bytes
    rag,               \* the storage collaborator's contents
    process_calls,     \* bag of the work items handed to process_file
    store_calls,       \* bag of the FileResults handed to store_file_result
    return_value,      \* what code_to_storage returned
    completion_log,    \* the outcome logged at lines 378-381
    \* src/repo_graphrag/llm/openai_embedding.py
    client_configured, \* _openai_embedding_client is not None
    limiter_capacity,  \* capacity of the shared rate limiter
    limiter_in_use,    \* slots of the rate limiter that are taken
    embed_calls,       \* openai_embed call id -> [pc, texts, idx, all_embeddings, exc, requests, sent]
    \* src/repo_graphrag/initialization/initializer.py
    embedding_model_provider, \* config.settings: "huggingface" | "openai" | another name
    hf_hub_offline,    \* config.settings
    emb_model,         \* _emb_model
    tokenizer,         \* _tokenizer
    embed_init_lock,   \* _embed_init_lock: None or the asyncio.Lock, [holder |-> 0] when free
    cached_embedding_func, \* _load_embedding_components._cached_embedding_func, "unset" without the attribute
    load_calls,        \* _load_embedding_components call id -> [pc, ret, exc]
    loads_succeeded,   \* number of loads that ran to the assignment of the cache
    tokenizer_result,  \* outcome of the latest get_tokenizer call
    \* src/repo_graphrag/utils/lock_manager.py
    storage_dir_exists, \* the storage directory is on disk
    lock_file,         \* storage.lock: None when absent, else [pid |-> writer]
    lock_calls,        \* process id -> [op, pc, before, after, ret, seq]
    \* src/server.py, src/lightragcoder.py
    entry,             \* "run_mcp" | "server_main"
    startup,           \* position of the start-up code
    pending_tools,     \* pending_tools
    mcp_tools,         \* the tools registered with mcp.tool, in order
    storage_desc,      \* storage_desc
    storage_dir_path,  \* storage_dir_path
    read_dir_list,     \* read_dir_list
    server_rag,        \* the module global rag: None, [instance |-> t] or [unbound |-> TRUE]
    finalized,         \* the LightRAG instances whose finalize_storages has been called
    source_dirs_setting, \* the source directories in the storage's settings.json
    tool_calls         \* tool invocation id -> [tool, pc, state, result, exc, pending, lock_seen, accessed, initialized]

pipeline_vars ==
    <<parallel_num, total_files, processing_queue, storage_queue,
      processed_count, stored_count, processing_done, storage_done,
      producer_task, worker_tasks, storage_task, progress_task, driver,
      process_errors, store_errors, code_dict, rag, process_calls,
      store_calls, return_value, completion_log>>

embed_vars == <<client_configured, limiter_capacity, limiter_in_use, embed_calls>>

load_vars ==
    <<embedding_model_provider, hf_hub_offline, emb_model, tokenizer,
      embed_init_lock, cached_embedding_func, load_calls, loads_succeeded,
      tokenizer_result>>

lock_vars == <<storage_dir_exists, lock_file, lock_calls>>

server_vars ==
    <<entry, startup, pending_tools, mcp_tools, storage_desc,
      storage_dir_path, read_dir_list, server_rag, finalized,
      source_dirs_setting, tool_calls>>

\* What a step of the pipeline, of openai_embed, of the initializer, of the
\* lock manager, resp. of the server leaves alone.  The server works on the
\* lock manager's directory and lock file.
outside_pipeline == <<embed_vars, load_vars, lock_vars, server_vars>>
outside_embed == <<pipeline_vars, load_vars, lock_vars, server_vars>>
outside_load == <<pipeline_vars, embed_vars, lock_vars, server_vars>>
outside_lock == <<pipeline_vars, embed_vars, load_vars, server_vars>>
outside_server == <<pipeline_vars, embed_vars, load_vars, lock_calls>>

vars == <<pipeline_vars, embed_vars, load_vars, lock_vars, server_vars>>

----------------------------------------------------------------------------
\* asyncio.Queue

\* Queue.full(): never true when maxsize <= 0.
full(q) == QueueMaxsize > 0 /\ Len(q) >= QueueMaxsize

\* Queue.put_nowait
put(q, item) == Append(q, item)

RECURSIVE put_all(_, _)
put_all(q, items) ==
    IF items = <<>> THEN q ELSE put_all(put(q, Head(items)), Tail(items))

----------------------------------------------------------------------------
\* The file contents code_dict is drawn from:
\*   "binary"       bytes that are not valid UTF-8;
\*   "empty"        b"", a file without any syntax node to chunk;
\*   "def"          b"def f():\n    pass\n", one definition on lines 1-2;
\*   "two_on_line"  b"function f(){} function g(){}\n", two definitions that
\*                  both start and end on line 1.
FileContents == {"binary", "empty", "def", "two_on_line"}

\* bytes.decode('utf-8') succeeds (line 45).
decodes(file_content_bytes) == file_content_bytes # "binary"

\* The byte length of every line of a content, newline included.
line_lengths(file_content_bytes) ==
    CASE file_content_bytes = "def" -> <<9, 9>>
      [] file_content_bytes = "two_on_line" -> <<30>>
      [] file_content_bytes = "binary" -> <<4>>
      [] OTHER -> <<>>

\* build_line_offset_list: offset 0 for line 1, then one offset after each
\* newline byte.
RECURSIVE offsets_from(_, _)
offsets_from(start, lengths) ==
    IF lengths = <<>> THEN <<start>>
    ELSE <<start>> \o offsets_from(start + Head(lengths), Tail(lengths))

build_line_offset_list(file_content_bytes) ==
    offsets_from(0, line_lengths(file_content_bytes))

\* create_code_chunks: the nodes chosen for chunking, in file order, each
\* with its byte range [start_byte, end_byte) and the name it defines.
create_code_chunks(file_content_bytes) ==
    CASE file_content_bytes = "def" ->
            <<[start_byte |-> 0, end_byte |-> 17, name |-> "f"]>>
      [] file_content_bytes = "two_on_line" ->
            <<[start_byte |-> 0, end_byte |-> 14, name |-> "f"],
              [start_byte |-> 15, end_byte |-> 29, name |-> "g"]>>
      [] OTHER -> <<>>

\* get_node_line_range: the 1-based lines of the node's first and last byte.
get_node_line_range(node, line_offset_list) ==
    [start_line |-> Cardinality({i \in DOMAIN line_offset_list :
                                    line_offset_list[i] <= node.start_byte}),
     end_line |-> Cardinality({i \in DOMAIN line_offset_list :
                                    line_offset_list[i] < node.end_byte})]

\* create_code_graph for a chunk node with an empty parent name: one entity
\* for the definition, no relationship at top level.
create_code_graph(node, source_id, code_path) ==
    [entities |-> <<[entity_name |-> node.name, source_id |-> source_id,
                     file_path |-> code_path]>>,
     relationships |-> <<>>]

\* os.path.basename: the last component of a path.
basename(code_path) == code_path[Len(code_path)]

\* Line 67: f"file:{file_name}_line:{start_line}-{end_line}".
make_source_id(file_name, range) ==
    <<"file:", file_name, "_line:", range.start_line, "-", range.end_line>>

\* The text of a node: the slice of the file it covers.
node_text(file_content_bytes, node) ==
    <<file_content_bytes, node.start_byte, node.end_byte>>

\* Lines 61-76: the chunk built for one node.
chunk_of(item, node) ==
    [content |-> node_text(item.file_content_bytes, node),
     source_id |-> make_source_id(basename(item.code_path),
                        get_node_line_range(node,
                            build_line_offset_list(item.file_content_bytes))),
     file_path |-> item.code_path]

RECURSIVE concat(_)
concat(seqs) == IF seqs = <<>> THEN <<>> ELSE Head(seqs) \o concat(Tail(seqs))

\* process_file (lines 18-102) when it returns: the FileResult of a work item.
process_file(item) ==
    LET nodes == create_code_chunks(item.file_content_bytes)
        chunks == [i \in DOMAIN nodes |-> chunk_of(item, nodes[i])]
        graphs == [i \in DOMAIN nodes |->
                      create_code_graph(nodes[i], chunks[i].source_id, item.code_path)]
    IN  [file_path |-> item.code_path,
         file_content |-> item.file_content_bytes,
         chunks |-> chunks,
         entities |-> concat([i \in DOMAIN nodes |-> graphs[i].entities]),
         relationships |-> concat([i \in DOMAIN nodes |-> graphs[i].relationships])]

\* process_file can return for the item: the decode of line 45 does not raise.
\* (Any call may still raise for another reason: unknown extension, parser
\* or extraction failure.)
process_file_can_return_lenient(item) == TRUE

process_file_can_return(item) == decodes(item.file_content_bytes)

----------------------------------------------------------------------------
\* The storage collaborator (LightRAG), seen through the three calls
\* store_file_result makes.

\* A hash that is the same for every content.
compute_mdhash_id_constant(content, prefix) == <<prefix, "d41d8cd9">>

\* compute_mdhash_id: a hash of the content behind a prefix.
compute_mdhash_id(content, prefix) == <<prefix, content>>

\* Line 119: "if file_chunks or file_entities or file_relationships".
has_content_always(result) == TRUE

has_content(result) ==
    result.chunks # <<>> \/ result.entities # <<>> \/ result.relationships # <<>>

doc_id_of(result) == compute_mdhash_id(result.file_content, "doc-")

\* rag.ainsert_custom_kg (lines 125-132)
ainsert_custom_kg(store, result) ==
    [store EXCEPT !.custom_kg = @ \cup
        {[full_doc_id |-> doc_id_of(result),
          chunks |-> result.chunks,
          entities |-> result.entities,
          relationships |-> result.relationships]}]

\* rag.doc_status.upsert (lines 141-157); the timestamps are left out.
doc_status_upsert(store, result) ==
    [store EXCEPT !.doc_status = (doc_id_of(result) :>
        [status |-> "PROCESSED",
         chunks_count |-> Len(result.chunks),
         content |-> result.file_content,
         file_path |-> result.file_path,
         chunks_list |-> [i \in DOMAIN result.chunks |->
                            compute_mdhash_id(result.chunks[i].content, "chunk-")]])
        @@ @]

\* rag.full_docs.upsert (lines 160-164)
full_docs_upsert(store, result) ==
    [store EXCEPT !.full_docs =
        (doc_id_of(result) :> [content |-> result.file_content]) @@ @]

\* The collaborator calls store_file_result makes for a result, in order.
storage_calls(result) ==
    IF ~has_content(result) THEN <<>>
    ELSE IF result.chunks = <<>> THEN <<"ainsert_custom_kg">>
    ELSE <<"ainsert_custom_kg", "doc_status.upsert", "full_docs.upsert">>

\* The status written before the ingest call.
store_file_result_upto_status_first(store, result, n) ==
    LET s1 == IF n >= 1 THEN doc_status_upsert(store, result) ELSE store
        s2 == IF n >= 2 THEN ainsert_custom_kg(s1, result) ELSE s1
    IN  IF n >= 3 THEN full_docs_upsert(s2, result) ELSE s2

\* The storage after the first n calls of store_file_result have returned.
store_file_result_upto(store, result, n) ==
    LET s1 == IF n >= 1 THEN ainsert_custom_kg(store, result) ELSE store
        s2 == IF n >= 2 THEN doc_status_upsert(s1, result) ELSE s1
    IN  IF n >= 3 THEN full_docs_upsert(s2, result) ELSE s2

\* store_file_result (lines 104-171) when it returns.
store_file_result(store, result) ==
    store_file_result_upto(store, result, Len(storage_calls(result)))

----------------------------------------------------------------------------
\* Task sets created by code_to_storage (lines 302-304, 317).

\* A pool with one worker too many: range(parallel_num + 1).
WorkerIds_one_more == 0 .. parallel_num

\* range(parallel_num)
WorkerIds == 0 .. (parallel_num - 1)

\* A second storage_worker() task created next to the first.
StorageIds_two == {0, 1}

\* The single storage_worker() task.
StorageIds == {0}

\* The single progress_reporter() task.
ProgressIds == {0}

\* Every file put on the work queue twice.
code_dict_items_twice ==
    [i \in 1 .. (2 * total_files) |->
        [code_path |-> <<"repo", ((i - 1) % total_files) + 1>>,
         file_content_bytes |-> code_dict[((i - 1) % total_files) + 1]]]

\* code_dict.items() in iteration order: (code_path, file_content_bytes).
code_dict_items ==
    [i \in 1 .. total_files |->
        [code_path |-> <<"repo", i>>, file_content_bytes |-> code_dict[i]]]

\* One sentinel too few: range(parallel_num - 1).
sentinels_one_short == [i \in 1 .. (parallel_num - 1) |-> None]

\* One sentinel too many: range(parallel_num + 1).
sentinels_one_more == [i \in 1 .. (parallel_num + 1) |-> None]

\* One sentinel per worker.
sentinels == [i \in 1 .. parallel_num |-> None]

----------------------------------------------------------------------------
\* No openai_embed call exists.
EmbedIdle ==
    /\ client_configured = FALSE
    /\ limiter_capacity = 1
    /\ limiter_in_use = 0
    /\ embed_calls = <<>>

\* No _load_embedding_components or get_tokenizer call exists.
LoadIdle ==
    /\ embedding_model_provider = "huggingface"
    /\ hf_hub_offline = FALSE
    /\ emb_model = None
    /\ tokenizer = None
    /\ embed_init_lock = None
    /\ cached_embedding_func = "unset"
    /\ load_calls = <<>>
    /\ loads_succeeded = 0
    /\ tokenizer_result = "none"

\* No lock manager call exists.
LockIdle ==
    /\ storage_dir_exists = TRUE
    /\ lock_file = None
    /\ lock_calls = <<>>

\* The server module is not loaded.
ServerIdle ==
    /\ entry = "server_main"
    /\ startup = "import"
    /\ pending_tools = <<>>
    /\ mcp_tools = <<>>
    /\ storage_desc = None
    /\ storage_dir_path = None
    /\ read_dir_list = <<>>
    /\ server_rag = None
    /\ finalized = {}
    /\ source_dirs_setting = <<>>
    /\ tool_calls = <<>>

Init ==
    /\ EmbedIdle
    /\ LoadIdle
    /\ LockIdle
    /\ ServerIdle
    /\ parallel_num \in 1 .. MaxParallel
    /\ total_files \in 0 .. MaxFiles
    /\ processing_queue = <<>>
    /\ storage_queue = <<>>
    /\ processed_count = 0
    /\ stored_count = 0
    /\ processing_done = FALSE
    /\ storage_done = FALSE
    /\ producer_task = "none"
    /\ worker_tasks = [w \in {} |-> [pc |-> "get", item |-> None, err |-> FALSE]]
    /\ storage_task = [s \in {} |-> [pc |-> "get", result |-> None, err |-> FALSE]]
    /\ progress_task = [r \in {} |-> [pc |-> "start", must_cancel |-> FALSE]]
    /\ driver = "start"
    /\ process_errors = {}
    /\ store_errors = {}
    /\ code_dict \in [1 .. total_files -> FileContents]
    /\ rag = [custom_kg |-> {}, doc_status |-> <<>>, full_docs |-> <<>>]
    /\ process_calls = EmptyBag
    /\ store_calls = EmptyBag
    /\ return_value = [pending |-> TRUE]
    /\ completion_log = "none"

----------------------------------------------------------------------------
\* code_to_storage, lines 302-317: the tasks are created and scheduled; none
\* of them runs before the driver's first await.
create_tasks ==
    /\ driver = "start"
    /\ producer_task' = "ready"
    /\ worker_tasks' = [w \in WorkerIds |-> [pc |-> "get", item |-> None, err |-> FALSE]]
    /\ storage_task' = [s \in StorageIds |-> [pc |-> "get", result |-> None, err |-> FALSE]]
    /\ progress_task' = [r \in ProgressIds |-> [pc |-> "start", must_cancel |-> FALSE]]
    /\ driver' = "wait_processing"
    /\ UNCHANGED <<parallel_num, total_files, processing_queue, storage_queue,
                   processed_count, stored_count, processing_done, storage_done,
                   process_errors, store_errors>>
    /\ UNCHANGED <<code_dict, rag, process_calls, store_calls, return_value, completion_log>>
    /\ UNCHANGED outside_pipeline

\* producer(), lines 199-207.  No put suspends (the queue is never full), so
\* the whole coroutine runs in one step.
producer ==
    /\ producer_task = "ready"
    /\ ~full(processing_queue)
    /\ processing_queue' = put_all(put_all(processing_queue, code_dict_items), sentinels)
    /\ producer_task' = "finished"
    /\ UNCHANGED <<parallel_num, total_files, storage_queue,
                   processed_count, stored_count, processing_done, storage_done,
                   worker_tasks, storage_task, progress_task, driver,
                   process_errors, store_errors>>
    /\ UNCHANGED <<code_dict, rag, process_calls, store_calls, return_value, completion_log>>
    /\ UNCHANGED outside_pipeline

----------------------------------------------------------------------------
\* An increment whose update is lost.
increment_lost(count) == count

\* "processed_count += 1" (line 235) and "stored_count += 1" (line 277): no
\* suspension point lies between the read and the write.
increment(count) == count + 1

\* The signal set by every worker that leaves its loop, without the check.
worker_finish_unchecked == TRUE

\* processing_worker, lines 252-255: the check made after the loop is left.
\* The value of processing_done afterwards.
worker_finish == IF processed_count = total_files THEN TRUE ELSE processing_done

\* lines 217-229: a file is taken from the queue and process_file is called.
worker_get_item(w) ==
    /\ w \in DOMAIN worker_tasks
    /\ worker_tasks[w].pc = "get"
    /\ processing_queue # <<>>
    /\ Head(processing_queue) # None
    /\ processing_queue' = Tail(processing_queue)
    /\ worker_tasks' = [worker_tasks EXCEPT ![w] =
            [pc |-> "process_file", item |-> Head(processing_queue), err |-> FALSE]]
    /\ process_calls' = process_calls (+) SetToBag({Head(processing_queue)})
    /\ UNCHANGED <<parallel_num, total_files, storage_queue,
                   processed_count, stored_count, processing_done, storage_done,
                   producer_task, storage_task, progress_task, driver,
                   process_errors, store_errors>>
    /\ UNCHANGED <<code_dict, rag, store_calls, return_value, completion_log>>
    /\ UNCHANGED outside_pipeline

\* lines 217-222, 252-255: the sentinel is taken, the loop is left.
worker_get_sentinel(w) ==
    /\ w \in DOMAIN worker_tasks
    /\ worker_tasks[w].pc = "get"
    /\ processing_queue # <<>>
    /\ Head(processing_queue) = None
    /\ processing_queue' = Tail(processing_queue)
    /\ worker_tasks' = [worker_tasks EXCEPT ![w].pc = "finished"]
    /\ processing_done' = worker_finish
    /\ UNCHANGED <<parallel_num, total_files, storage_queue,
                   processed_count, stored_count, storage_done,
                   producer_task, storage_task, progress_task, driver,
                   process_errors, store_errors>>
    /\ UNCHANGED <<code_dict, rag, process_calls, store_calls, return_value, completion_log>>
    /\ UNCHANGED outside_pipeline

\* lines 229-236, 243: process_file returned; the result is queued for
\* storage and counted, and the worker is back at processing_queue.get().
worker_process_ok(w) ==
    /\ w \in DOMAIN worker_tasks
    /\ worker_tasks[w].pc = "process_file"
    /\ process_file_can_return(worker_tasks[w].item)
    /\ ~full(storage_queue)
    /\ storage_queue' = put(storage_queue, process_file(worker_tasks[w].item))
    /\ processed_count' = increment(processed_count)
    /\ worker_tasks' = [worker_tasks EXCEPT ![w] =
            [pc |-> "get", item |-> None, err |-> FALSE]]
    /\ UNCHANGED <<parallel_num, total_files, processing_queue,
                   stored_count, processing_done, storage_done,
                   producer_task, storage_task, progress_task, driver,
                   process_errors, store_errors>>
    /\ UNCHANGED <<code_dict, rag, process_calls, store_calls, return_value, completion_log>>
    /\ UNCHANGED outside_pipeline

\* lines 238-255: process_file raised.  The inner handler logs and re-raises,
\* the outer "except Exception" logs and breaks: the loop is left and the
\* coroutine ends normally after the check of lines 254-255.
worker_process_raise(w) ==
    /\ w \in DOMAIN worker_tasks
    /\ worker_tasks[w].pc = "process_file"
    /\ process_errors' = process_errors \cup {worker_tasks[w].item}
    /\ worker_tasks' = [worker_tasks EXCEPT ![w] =
            [pc |-> "finished", item |-> None, err |-> TRUE]]
    /\ processing_done' = worker_finish
    /\ UNCHANGED <<parallel_num, total_files, processing_queue, storage_queue,
                   processed_count, stored_count, storage_done,
                   producer_task, storage_task, progress_task, driver,
                   store_errors>>
    /\ UNCHANGED <<code_dict, rag, process_calls, store_calls, return_value, completion_log>>
    /\ UNCHANGED outside_pipeline

processing_worker(w) ==
    \/ worker_get_item(w)
    \/ worker_get_sentinel(w)
    \/ worker_process_ok(w)
    \/ worker_process_raise(w)

----------------------------------------------------------------------------
\* storage_worker, lines 265-274: a FileResult is taken and
\* store_file_result is called.
storage_get_result(s) ==
    /\ s \in DOMAIN storage_task
    /\ storage_task[s].pc = "get"
    /\ storage_queue # <<>>
    /\ Head(storage_queue) # None
    /\ storage_queue' = Tail(storage_queue)
    /\ storage_task' = [storage_task EXCEPT ![s] =
            [pc |-> "store_file_result", result |-> Head(storage_queue), err |-> FALSE]]
    /\ store_calls' = store_calls (+) SetToBag({Head(storage_queue)})
    /\ UNCHANGED <<parallel_num, total_files, processing_queue,
                   processed_count, stored_count, processing_done, storage_done,
                   producer_task, worker_tasks, progress_task, driver,
                   process_errors, store_errors>>
    /\ UNCHANGED <<code_dict, rag, process_calls, return_value, completion_log>>
    /\ UNCHANGED outside_pipeline

\* lines 265-270, 294-295: the sentinel is taken, the loop is left.
storage_get_sentinel(s) ==
    /\ s \in DOMAIN storage_task
    /\ storage_task[s].pc = "get"
    /\ storage_queue # <<>>
    /\ Head(storage_queue) = None
    /\ storage_queue' = Tail(storage_queue)
    /\ storage_task' = [storage_task EXCEPT ![s].pc = "finished"]
    /\ storage_done' = TRUE
    /\ UNCHANGED <<parallel_num, total_files, processing_queue,
                   processed_count, stored_count, processing_done,
                   producer_task, worker_tasks, progress_task, driver,
                   process_errors, store_errors>>
    /\ UNCHANGED <<code_dict, rag, process_calls, store_calls, return_value, completion_log>>
    /\ UNCHANGED outside_pipeline

\* lines 274-278, 285: store_file_result returned.
storage_store_ok(s) ==
    /\ s \in DOMAIN storage_task
    /\ storage_task[s].pc = "store_file_result"
    /\ stored_count' = increment(stored_count)
    /\ storage_task' = [storage_task EXCEPT ![s] =
            [pc |-> "get", result |-> None, err |-> FALSE]]
    /\ rag' = store_file_result(rag, storage_task[s].result)
    /\ UNCHANGED <<parallel_num, total_files, processing_queue, storage_queue,
                   processed_count, processing_done, storage_done,
                   producer_task, worker_tasks, progress_task, driver,
                   process_errors, store_errors>>
    /\ UNCHANGED <<code_dict, process_calls, store_calls, return_value, completion_log>>
    /\ UNCHANGED outside_pipeline

\* lines 280-295: store_file_result raised, in one of the collaborator calls
\* it makes, after the calls before that one have returned.  As in the
\* worker, the outer "except Exception" breaks; the coroutine sets
\* storage_done and ends normally.
storage_store_raise(s) ==
    /\ s \in DOMAIN storage_task
    /\ storage_task[s].pc = "store_file_result"
    /\ \E n \in 1 .. Len(storage_calls(storage_task[s].result)) :
          rag' = store_file_result_upto(rag, storage_task[s].result, n - 1)
    /\ store_errors' = store_errors \cup {storage_task[s].result}
    /\ storage_task' = [storage_task EXCEPT ![s] =
            [pc |-> "finished", result |-> None, err |-> TRUE]]
    /\ storage_done' = TRUE
    /\ UNCHANGED <<parallel_num, total_files, processing_queue, storage_queue,
                   processed_count, stored_count, processing_done,
                   producer_task, worker_tasks, progress_task, driver,
                   process_errors>>
    /\ UNCHANGED <<code_dict, process_calls, store_calls, return_value, completion_log>>
    /\ UNCHANGED outside_pipeline

storage_worker(s) ==
    \/ storage_get_result(s)
    \/ storage_get_sentinel(s)
    \/ storage_store_ok(s)
    \/ storage_store_raise(s)

----------------------------------------------------------------------------
\* progress_reporter, lines 307-315: the loop condition is evaluated when the
\* task first runs and after every sleep; the log lines change no state.
progress_reporter(r) ==
    /\ r \in DOMAIN progress_task
    /\ progress_task[r].pc \in {"start", "sleep"}
    /\ ~progress_task[r].must_cancel
    /\ progress_task' = [progress_task EXCEPT ![r].pc =
            IF processing_done /\ storage_done THEN "finished" ELSE "sleep"]
    /\ UNCHANGED <<parallel_num, total_files, processing_queue, storage_queue,
                   processed_count, stored_count, processing_done, storage_done,
                   producer_task, worker_tasks, storage_task, driver,
                   process_errors, store_errors>>
    /\ UNCHANGED <<code_dict, rag, process_calls, store_calls, return_value, completion_log>>
    /\ UNCHANGED outside_pipeline

\* The CancelledError requested by progress_task.cancel() is delivered at the
\* reporter's next turn and ends the task.
progress_cancelled(r) ==
    /\ r \in DOMAIN progress_task
    /\ progress_task[r].pc \in {"start", "sleep"}
    /\ progress_task[r].must_cancel
    /\ progress_task' = [progress_task EXCEPT ![r] =
            [pc |-> "cancelled", must_cancel |-> FALSE]]
    /\ UNCHANGED <<parallel_num, total_files, processing_queue, storage_queue,
                   processed_count, stored_count, processing_done, storage_done,
                   producer_task, worker_tasks, storage_task, driver,
                   process_errors, store_errors>>
    /\ UNCHANGED <<code_dict, rag, process_calls, store_calls, return_value, completion_log>>
    /\ UNCHANGED outside_pipeline

----------------------------------------------------------------------------
\* Task.done()
worker_done(w) == worker_tasks[w].pc = "finished"
storage_task_done(s) == storage_task[s].pc = "finished"
progress_done(r) == progress_task[r].pc \in {"finished", "cancelled"}

\* A cancel() that is never issued.
cancel_never(t) == t

\* Task.cancel(): a request, ignored by a task that is already done.
cancel(t) == IF t.pc \in {"finished", "cancelled"} THEN t
             ELSE [t EXCEPT !.must_cancel = TRUE]

\* The storage sentinel put without waiting for processing_done.
driver_processing_done_nowait ==
    /\ driver = "wait_processing"
    /\ storage_queue' = put(storage_queue, None)
    /\ driver' = "wait_storage"
    /\ UNCHANGED <<parallel_num, total_files, processing_queue,
                   processed_count, stored_count, processing_done, storage_done,
                   producer_task, worker_tasks, storage_task, progress_task,
                   process_errors, store_errors>>
    /\ UNCHANGED <<code_dict, rag, process_calls, store_calls, return_value, completion_log>>
    /\ UNCHANGED outside_pipeline

\* lines 321-326: processing_done.wait() returns, the storage sentinel is put.
driver_processing_done ==
    /\ driver = "wait_processing"
    /\ processing_done
    /\ ~full(storage_queue)
    /\ storage_queue' = put(storage_queue, None)
    /\ driver' = "wait_storage"
    /\ UNCHANGED <<parallel_num, total_files, processing_queue,
                   processed_count, stored_count, processing_done, storage_done,
                   producer_task, worker_tasks, storage_task, progress_task,
                   process_errors, store_errors>>
    /\ UNCHANGED <<code_dict, rag, process_calls, store_calls, return_value, completion_log>>
    /\ UNCHANGED outside_pipeline

\* The driver returning without awaiting asyncio.gather.
after_cancel_no_gather == "returned"

\* The position of the driver after the finally block has cancelled the
\* reporter (line 354): it awaits asyncio.gather (line 357).
after_cancel == "gather"

\* lines 329-357: storage_done.wait() returns; the finally block cancels the
\* reporter and awaits every task.
driver_storage_done ==
    /\ driver = "wait_storage"
    /\ storage_done
    /\ progress_task' = [r \in DOMAIN progress_task |-> cancel(progress_task[r])]
    /\ driver' = after_cancel
    /\ UNCHANGED <<parallel_num, total_files, processing_queue, storage_queue,
                   processed_count, stored_count, processing_done, storage_done,
                   producer_task, worker_tasks, storage_task,
                   process_errors, store_errors>>
    /\ UNCHANGED <<code_dict, rag, process_calls, store_calls, return_value, completion_log>>
    /\ UNCHANGED outside_pipeline

\* The check of line 378 made on the processed counter alone.
completion_check_processed_only ==
    IF processed_count = total_files THEN "success" ELSE "warning"

\* lines 377-381: what is logged about the outcome.
completion_check ==
    IF processed_count = total_files /\ stored_count = total_files
    THEN "success" ELSE "warning"

\* lines 357-383: gather returns once every task is done; the outcome is
\* logged and code_to_storage returns.
driver_gather ==
    /\ driver = "gather"
    /\ \A w \in DOMAIN worker_tasks : worker_done(w)
    /\ \A s \in DOMAIN storage_task : storage_task_done(s)
    /\ producer_task = "finished"
    /\ \A r \in DOMAIN progress_task : progress_done(r)
    /\ driver' = "returned"
    /\ completion_log' = completion_check
    /\ return_value' = None
    /\ UNCHANGED <<parallel_num, total_files, processing_queue, storage_queue,
                   processed_count, stored_count, processing_done, storage_done,
                   producer_task, worker_tasks, storage_task, progress_task,
                   process_errors, store_errors>>
    /\ UNCHANGED <<code_dict, rag, process_calls, store_calls>>
    /\ UNCHANGED outside_pipeline

code_to_storage ==
    \/ create_tasks
    \/ driver_processing_done
    \/ driver_storage_done
    \/ driver_gather

----------------------------------------------------------------------------
Next ==
    \/ create_tasks
    \/ driver_processing_done
    \/ driver_storage_done
    \/ driver_gather
    \/ producer
    \/ \E w \in 0 .. (MaxParallel - 1) : worker_get_item(w)
    \/ \E w \in 0 .. (MaxParallel - 1) : worker_get_sentinel(w)
    \/ \E w \in 0 .. (MaxParallel - 1) : worker_process_ok(w)
    \/ \E w \in 0 .. (MaxParallel - 1) : worker_process_raise(w)
    \/ \E s \in StorageIds : storage_get_result(s)
    \/ \E s \in StorageIds : storage_get_sentinel(s)
    \/ \E s \in StorageIds : storage_store_ok(s)
    \/ \E s \in StorageIds : storage_store_raise(s)
    \/ \E r \in ProgressIds : progress_reporter(r)
    \/ \E r \in ProgressIds : progress_cancelled(r)

Spec == Init /\ [][Next]_vars

\* The event loop runs every task that is ready: each task, and the driver,
\* eventually takes a step that stays possible.
Fairness ==
    /\ WF_vars(code_to_storage)
    /\ WF_vars(producer)
    /\ \A w \in 0 .. (MaxParallel - 1) : WF_vars(processing_worker(w))
    /\ \A s \in StorageIds : WF_vars(storage_worker(s))
    /\ \A r \in ProgressIds : WF_vars(progress_reporter(r) \/ progress_cancelled(r))

LiveSpec == Spec /\ Fairness

\* The same scheduling, except that the reporter's own loop may stay asleep
\* for ever; a cancellation requested for it is still delivered.
FairnessButReporter ==
    /\ WF_vars(code_to_storage)
    /\ WF_vars(producer)
    /\ \A w \in 0 .. (MaxParallel - 1) : WF_vars(processing_worker(w))
    /\ \A s \in StorageIds : WF_vars(storage_worker(s))
    /\ \A r \in ProgressIds : WF_vars(progress_cancelled(r))

SleepyReporterSpec == Spec /\ FairnessButReporter

----------------------------------------------------------------------------
\* openai_embed, src/repo_graphrag/llm/openai_embedding.py lines 30-98.
\* Several calls run concurrently on the event loop and share one rate
\* limiter.  A call suspends while it waits for a slot and while a provider
\* request (embeddings.create) is in flight; a request returns or raises.

\* No pipeline run exists.
PipelineIdle ==
    /\ parallel_num = 1
    /\ total_files = 0
    /\ processing_queue = <<>>
    /\ storage_queue = <<>>
    /\ processed_count = 0
    /\ stored_count = 0
    /\ processing_done = FALSE
    /\ storage_done = FALSE
    /\ producer_task = "none"
    /\ worker_tasks = <<>>
    /\ storage_task = <<>>
    /\ progress_task = <<>>
    /\ driver = "start"
    /\ process_errors = {}
    /\ store_errors = {}
    /\ code_dict = <<>>
    /\ rag = [custom_kg |-> {}, doc_status |-> <<>>, full_docs |-> <<>>]
    /\ process_calls = EmptyBag
    /\ store_calls = EmptyBag
    /\ return_value = [pending |-> TRUE]
    /\ completion_log = "none"

\* A call of openai_embed(texts) that has not run yet.
new_embed_call(texts) ==
    [pc |-> "start", texts |-> texts, idx |-> 0, all_embeddings |-> <<>>,
     exc |-> "none", requests |-> 0, sent |-> <<>>]

\* The lists of texts of the calls: n different texts, 0 <= n <= MaxTexts.
TextLists == {[i \in 1 .. n |-> i] : n \in 0 .. MaxTexts}

EmbedInit ==
    /\ PipelineIdle
    /\ LoadIdle
    /\ LockIdle
    /\ ServerIdle
    /\ client_configured \in BOOLEAN
    /\ limiter_capacity \in 1 .. MaxCapacity
    /\ limiter_in_use = 0
    /\ \E n \in 1 .. MaxCallers :
          embed_calls \in [1 .. n -> {new_embed_call(t) : t \in TextLists}]

\* The rate limiter's admission: a slot is free.
slot_free == limiter_in_use < limiter_capacity

\* The embedding the provider returns for a text.
embedding(text) == <<"embedding", text>>

\* lines 44-48: the client check made when the call starts.
embed_start(c) ==
    /\ c \in DOMAIN embed_calls
    /\ embed_calls[c].pc = "start"
    /\ embed_calls' = [embed_calls EXCEPT ![c] =
          IF client_configured
          THEN [@ EXCEPT !.pc = "acquire_batch"]
          ELSE [@ EXCEPT !.pc = "raised", !.exc = "ValueError"]]
    /\ UNCHANGED <<client_configured, limiter_capacity, limiter_in_use>>
    /\ UNCHANGED outside_embed

\* lines 55-67: "async with get_rate_limiter()" is entered once a slot is
\* free and the batch request is sent.
embed_acquire_batch(c) ==
    /\ c \in DOMAIN embed_calls
    /\ embed_calls[c].pc = "acquire_batch"
    /\ slot_free
    /\ limiter_in_use' = limiter_in_use + 1
    /\ embed_calls' = [embed_calls EXCEPT ![c].pc = "batch_call",
                                          ![c].requests = @ + 1,
                                          ![c].sent = Append(@, embed_calls[c].texts)]
    /\ UNCHANGED <<client_configured, limiter_capacity>>
    /\ UNCHANGED outside_embed

\* lines 67-69, 98: the batch request returned; the async with block is left
\* and the call returns one embedding per text.
embed_batch_return(c) ==
    /\ c \in DOMAIN embed_calls
    /\ embed_calls[c].pc = "batch_call"
    /\ limiter_in_use' = limiter_in_use - 1
    /\ embed_calls' = [embed_calls EXCEPT ![c].pc = "returned",
          ![c].all_embeddings = [i \in DOMAIN embed_calls[c].texts |->
                                    embedding(embed_calls[c].texts[i])]]
    /\ UNCHANGED <<client_configured, limiter_capacity>>
    /\ UNCHANGED outside_embed

\* A block left by an exception without giving its slot back.
slots_after_raise_leak == limiter_in_use

\* The slots taken after an exception has left an "async with" block
\* (lines 55-67, 78-90): the slot is given back.
slots_after_raise == limiter_in_use - 1

\* A retry made for every list that has a text.
retries_single_text(texts) == Len(texts) >= 1

\* line 73: the texts are retried one by one when there is more than one.
retries(texts) == Len(texts) > 1

\* lines 67-75, 95-96: the batch request raised.  The async with block is
\* left; with more than one text the texts are retried one by one, with one
\* text RuntimeError is raised, and with no text texts[0] raises IndexError.
embed_batch_raise(c) ==
    /\ c \in DOMAIN embed_calls
    /\ embed_calls[c].pc = "batch_call"
    /\ limiter_in_use' = slots_after_raise
    /\ embed_calls' = [embed_calls EXCEPT ![c] =
          IF retries(@.texts)
          THEN [@ EXCEPT !.pc = "acquire_item", !.idx = 1]
          ELSE IF Len(@.texts) = 1
          THEN [@ EXCEPT !.pc = "raised", !.exc = "RuntimeError"]
          ELSE [@ EXCEPT !.pc = "raised", !.exc = "IndexError"]]
    /\ UNCHANGED <<client_configured, limiter_capacity>>
    /\ UNCHANGED outside_embed

\* lines 76-90: the async with block of the retry is entered once a slot is
\* free and the request for text idx is sent.
embed_acquire_item(c) ==
    /\ c \in DOMAIN embed_calls
    /\ embed_calls[c].pc = "acquire_item"
    /\ slot_free
    /\ limiter_in_use' = limiter_in_use + 1
    /\ embed_calls' = [embed_calls EXCEPT ![c].pc = "item_call",
                                          ![c].requests = @ + 1,
                                          ![c].sent = Append(@, <<embed_calls[c].texts[embed_calls[c].idx]>>)]
    /\ UNCHANGED <<client_configured, limiter_capacity>>
    /\ UNCHANGED outside_embed

\* lines 90-91, 98: the request for text idx returned; its embedding is
\* appended and the loop goes on, or the call returns after the last text.
embed_item_return(c) ==
    /\ c \in DOMAIN embed_calls
    /\ embed_calls[c].pc = "item_call"
    /\ limiter_in_use' = limiter_in_use - 1
    /\ embed_calls' = [embed_calls EXCEPT ![c] =
          [@ EXCEPT !.all_embeddings = Append(@, embedding(embed_calls[c].texts[embed_calls[c].idx])),
                    !.idx = @ + 1,
                    !.pc = IF embed_calls[c].idx = Len(embed_calls[c].texts)
                           THEN "returned" ELSE "acquire_item"]]
    /\ UNCHANGED <<client_configured, limiter_capacity>>
    /\ UNCHANGED outside_embed

\* lines 90-94: the request for text idx raised; the async with block is
\* left and RuntimeError is raised.
embed_item_raise(c) ==
    /\ c \in DOMAIN embed_calls
    /\ embed_calls[c].pc = "item_call"
    /\ limiter_in_use' = slots_after_raise
    /\ embed_calls' = [embed_calls EXCEPT ![c].pc = "raised",
                                          ![c].exc = "RuntimeError"]
    /\ UNCHANGED <<client_configured, limiter_capacity>>
    /\ UNCHANGED outside_embed

openai_embed(c) ==
    \/ embed_start(c)
    \/ embed_acquire_batch(c)
    \/ embed_batch_return(c)
    \/ embed_batch_raise(c)
    \/ embed_acquire_item(c)
    \/ embed_item_return(c)
    \/ embed_item_raise(c)

EmbedNext ==
    \/ \E c \in 1 .. MaxCallers : embed_start(c)
    \/ \E c \in 1 .. MaxCallers : embed_acquire_batch(c)
    \/ \E c \in 1 .. MaxCallers : embed_batch_return(c)
    \/ \E c \in 1 .. MaxCallers : embed_batch_raise(c)
    \/ \E c \in 1 .. MaxCallers : embed_acquire_item(c)
    \/ \E c \in 1 .. MaxCallers : embed_item_return(c)
    \/ \E c \in 1 .. MaxCallers : embed_item_raise(c)

EmbedSpec == EmbedInit /\ [][EmbedNext]_vars

----------------------------------------------------------------------------
\* Observations used by the properties.

\* Some process_file or store_file_result call of the run has raised.
AnyFailure == process_errors # {} \/ store_errors # {}

\* code_to_storage has given control back to its caller.
Ended == driver \in {"returned", "raised"}

\* The process_file calls in progress.
InProcessFile == {w \in DOMAIN worker_tasks : worker_tasks[w].pc = "process_file"}

\* The store_file_result calls in progress.
InStoreFileResult == {s \in DOMAIN storage_task : storage_task[s].pc = "store_file_result"}

\* Every task created by the run has terminated.
AllTasksDone ==
    /\ producer_task = "finished"
    /\ \A w \in DOMAIN worker_tasks : worker_done(w)
    /\ \A s \in DOMAIN storage_task : storage_task_done(s)
    /\ \A r \in DOMAIN progress_task : progress_done(r)

\* No task and no driver step can change the state any more.
AtRest == ~ENABLED <<Next>>_vars

----------------------------------------------------------------------------
\* C1: in a run in which no process_file call and no store_file_result call
\* ever fails, for any number of files (zero included) and any parallelism
\* >= 1, code_to_storage eventually returns, with
\* processed_count = stored_count = total_files.
C1_FailureFreeRunCompletes ==
    ([]~AnyFailure) =>
        <>(driver = "returned" /\ processed_count = total_files
                               /\ stored_count = total_files)

\* A failure-free run of several files on several workers has returned.
C1_Witness ==
    /\ driver = "returned"
    /\ ~AnyFailure
    /\ total_files >= 2
    /\ parallel_num >= 2
    /\ stored_count = total_files

\* C2: when process_file raises for a file the error is not swallowed:
\* once the run has come to rest, code_to_storage has raised to its caller.
C2_ProcessErrorRaised ==
    (process_errors # {} /\ AtRest) => driver = "raised"

\* C3: in every run, failures included, code_to_storage eventually gives
\* control back to its caller, by returning or by raising.
C3_AlwaysEnds == <>Ended

\* C4: when store_file_result raises the run does not return normally; a
\* run that returns has both counters equal to total_files.
C4_ReturnMeansComplete ==
    driver = "returned" =>
        /\ store_errors = {}
        /\ processed_count = total_files
        /\ stored_count = total_files

\* C5: once a process_file failure has been observed, no FileResult is put
\* on the storage queue and no store_file_result call starts.
C5_NothingStoredAfterFailure ==
    [][process_errors # {} =>
        /\ Len(storage_queue') > Len(storage_queue)
              => storage_queue'[Len(storage_queue')] = None
        /\ \A s \in DOMAIN storage_task :
              storage_task'[s].pc = "store_file_result"
                  => storage_task[s].pc = "store_file_result"]_vars

\* C6: at most one store_file_result call is in progress at any time.
C6_StorageSerialised == Cardinality(InStoreFileResult) <= 1

\* A store_file_result call is in progress while a worker of a pool of
\* several workers is inside process_file.
C6_Witness ==
    /\ InStoreFileResult # {}
    /\ InProcessFile # {}
    /\ parallel_num >= 2

\* C7: whenever code_to_storage has returned or raised, the producer, every
\* worker, the storage worker and the progress reporter have terminated, so
\* no process_file call and no storage call is in progress or can begin.
C7_NoOrphanedTask ==
    Ended => /\ AllTasksDone
             /\ InProcessFile = {}
             /\ InStoreFileResult = {}

\* code_to_storage has returned after cancelling a reporter that was asleep.
C7_Witness ==
    /\ driver = "returned"
    /\ total_files >= 1
    /\ \E r \in DOMAIN progress_task : progress_task[r].pc = "cancelled"

\* C8: at most parallel_num process_file calls are in progress, and a run
\* has exactly one storage worker and one progress reporter.
C8_BoundedParallelism ==
    /\ Cardinality(InProcessFile) <= parallel_num
    /\ Cardinality(DOMAIN worker_tasks) <= parallel_num
    /\ driver # "start" => /\ Cardinality(DOMAIN storage_task) = 1
                           /\ Cardinality(DOMAIN progress_task) = 1

\* Every worker of a pool of several workers is inside process_file.
C8_Witness ==
    /\ parallel_num >= 2
    /\ Cardinality(InProcessFile) = parallel_num

\* C9 as stated: the length of each queue never exceeds the capacity the
\* queue was built with.
C9_QueuesWithinCapacity ==
    /\ Len(processing_queue) <= QueueMaxsize
    /\ Len(storage_queue) <= QueueMaxsize

\* C9 as amended: the queues have no capacity and no enqueue blocks; the
\* work queue holds at most total_files + parallel_num items and the storage
\* queue at most total_files + 1.
C9_QueueLengths ==
    /\ ~full(processing_queue)
    /\ ~full(storage_queue)
    /\ Len(processing_queue) <= total_files + parallel_num
    /\ Len(storage_queue) <= total_files + 1

\* The producer has put every file and every sentinel before any worker ran.
C9_Witness ==
    /\ total_files >= 2
    /\ Len(processing_queue) = total_files + parallel_num

\* C10: if processing_done is set then processed_count = total_files.
C10_ProcessingDoneMeansAllProcessed ==
    processing_done => processed_count = total_files

\* The signal is set in a run that had files to process.
C10_Witness ==
    /\ processing_done
    /\ total_files >= 2
    /\ processed_count = total_files

----------------------------------------------------------------------------
\* More observations.

Range(f) == {f[i] : i \in DOMAIN f}

\* A FileResult without chunks, entities and relationships.
EmptyResult(result) ==
    result.chunks = <<>> /\ result.entities = <<>> /\ result.relationships = <<>>

\* A step taken by a reporter task itself (not the driver's cancel request).
ReporterStep == progress_task' # progress_task /\ driver' = driver

\* The chunks of a FileResult have pairwise different source ids.
UniqueSourceIds(result) ==
    \A i, j \in DOMAIN result.chunks :
        i # j => result.chunks[i].source_id # result.chunks[j].source_id

----------------------------------------------------------------------------
\* C11: if storage_done is set then stored_count = total_files.
C11_StorageDoneMeansAllStored ==
    storage_done => stored_count = total_files

\* C12: the stop signal is put on the storage queue only after
\* processing_done, when every FileResult has been put: it is the last item
\* of the queue, and once the storage worker has taken it no FileResult is
\* left waiting.
C12_StopSignalAfterAllResults ==
    /\ \A i \in DOMAIN storage_queue :
          storage_queue[i] = None =>
              /\ i = Len(storage_queue)
              /\ processing_done
              /\ processed_count = total_files
    /\ \A s \in DOMAIN storage_task :
          (storage_task[s].pc = "finished" /\ ~storage_task[s].err)
              => storage_queue = <<>>

\* The stop signal waits in the storage queue behind a FileResult.
C12_Witness ==
    /\ Len(storage_queue) >= 2
    /\ storage_queue[Len(storage_queue)] = None
    /\ storage_queue[1] # None

\* C13: no work item is handed to process_file more than once and no
\* FileResult to store_file_result more than once; when a failure-free run
\* has returned, every file was processed exactly once and its FileResult
\* stored exactly once.
C13_ExactlyOnce ==
    /\ \A it \in BagToSet(process_calls) : CopiesIn(it, process_calls) = 1
    /\ \A r \in BagToSet(store_calls) : CopiesIn(r, store_calls) = 1
    /\ (driver = "returned" /\ ~AnyFailure) =>
          \A it \in Range(code_dict_items) :
              /\ CopiesIn(it, process_calls) = 1
              /\ CopiesIn(process_file(it), store_calls) = 1

\* A failure-free run of two files on two workers has returned.
C13_Witness ==
    /\ driver = "returned"
    /\ ~AnyFailure
    /\ total_files >= 2
    /\ parallel_num >= 2
    /\ BagCardinality(store_calls) = total_files

\* C14: when a failure-free run has returned, the set of FileResults handed
\* to storage, and the set of graph fragments inserted, depend on code_dict
\* alone: not on parallel_num and not on the interleaving.
C14_StoredSetDeterminedByInput ==
    (driver = "returned" /\ ~AnyFailure) =>
        /\ BagToSet(store_calls) = {process_file(it) : it \in Range(code_dict_items)}
        /\ rag.custom_kg =
              {[full_doc_id |-> doc_id_of(process_file(it)),
                chunks |-> process_file(it).chunks,
                entities |-> process_file(it).entities,
                relationships |-> process_file(it).relationships] :
                  it \in {x \in Range(code_dict_items) : ~EmptyResult(process_file(x))}}

\* A failure-free run over two files with different contents has returned.
C14_Witness ==
    /\ driver = "returned"
    /\ ~AnyFailure
    /\ total_files >= 2
    /\ Cardinality(rag.custom_kg) >= 2

\* C15 as stated: code_to_storage returns an outcome that carries a success
\* flag, true iff both counters equal total_files.
C15_OutcomeReturned ==
    driver = "returned" =>
        /\ return_value # None
        /\ return_value.success =
              (processed_count = total_files /\ stored_count = total_files)

\* C15 as amended: code_to_storage returns None; the outcome is only logged,
\* as a success iff both counters equal total_files and as a warning
\* otherwise.
C15_OutcomeOnlyLogged ==
    /\ driver # "returned" => completion_log = "none"
    /\ driver = "returned" =>
          /\ return_value = None
          /\ completion_log = "success" <=>
                (processed_count = total_files /\ stored_count = total_files)
          /\ completion_log = "warning" <=>
                (processed_count # total_files \/ stored_count # total_files)

\* A run has returned with every file processed and not every file stored.
C15_Witness ==
    /\ driver = "returned"
    /\ processed_count = total_files
    /\ stored_count < total_files
    /\ completion_log = "warning"

\* C16: no step of the progress reporter changes a counter, a queue or a
\* completion signal, and a failure-free run returns even if the reporter
\* never wakes up from its sleep.
C16_ReporterObservational ==
    /\ [][ReporterStep =>
            UNCHANGED <<processed_count, stored_count, processing_queue,
                        storage_queue, processing_done, storage_done>>]_vars
    /\ ([]~AnyFailure) => <>(driver = "returned")

\* The run has returned although the reporter never ran: it was cancelled
\* before its first step.
C16_Witness ==
    /\ driver = "returned"
    /\ ~AnyFailure
    /\ total_files >= 1
    /\ process_calls # EmptyBag
    /\ \A r \in DOMAIN progress_task : progress_task[r].pc = "cancelled"

\* C17: a process_file call on bytes that are not valid UTF-8 ends by
\* raising: the step that ends it puts nothing on the storage queue, leaves
\* processed_count unchanged and records the error.
C17_DecodeErrorYieldsNothing ==
    [][\A w \in DOMAIN worker_tasks :
          (/\ worker_tasks[w].pc = "process_file"
           /\ ~decodes(worker_tasks[w].item.file_content_bytes)
           /\ worker_tasks'[w] # worker_tasks[w])
          => /\ storage_queue' = storage_queue
             /\ processed_count' = processed_count
             /\ worker_tasks[w].item \in process_errors']_vars

\* process_file has raised for a file that is not valid UTF-8.
C17_Witness ==
    \E it \in process_errors : ~decodes(it.file_content_bytes)

\* C18: within one FileResult no two chunks have the same source_id.
C18_SourceIdsUnique ==
    \A i \in DOMAIN storage_queue :
        storage_queue[i] # None => UniqueSourceIds(storage_queue[i])

\* C19: a FileResult without chunks, entities and relationships is counted
\* by the worker that produced it, and the store_file_result call for it
\* returns without writing to storage and is counted in stored_count.
C19_EmptyResultCountedNotWritten ==
    [][/\ \A w \in DOMAIN worker_tasks :
            (/\ worker_tasks[w].pc = "process_file"
             /\ EmptyResult(process_file(worker_tasks[w].item))
             /\ worker_tasks'[w] # worker_tasks[w]
             /\ process_errors' = process_errors)
            => /\ processed_count' = processed_count + 1
               /\ storage_queue' = Append(storage_queue, process_file(worker_tasks[w].item))
       /\ \A s \in DOMAIN storage_task :
            (/\ storage_task[s].pc = "store_file_result"
             /\ EmptyResult(storage_task[s].result)
             /\ storage_task'[s] # storage_task[s])
            => /\ rag' = rag
               /\ stored_count' = stored_count + 1
               /\ store_errors' = store_errors]_vars

\* An empty FileResult has been stored and counted while storage is untouched.
C19_Witness ==
    /\ stored_count >= 1
    /\ \E r \in BagToSet(store_calls) : EmptyResult(r)
    /\ rag.custom_kg = {}
    /\ \A s \in DOMAIN storage_task : storage_task[s].pc = "get"

----------------------------------------------------------------------------
\* The provider requests in flight.
RequestsInFlight ==
    {c \in DOMAIN embed_calls : embed_calls[c].pc \in {"batch_call", "item_call"}}

\* C20: every slot taken by openai_embed is given back when the guarded
\* request returns or raises: the slots in use are exactly those of the
\* requests in flight, so a call that has returned or raised holds none,
\* and at most limiter_capacity requests are in flight.
C20_SlotsReleased ==
    /\ limiter_in_use = Cardinality(RequestsInFlight)
    /\ Cardinality(RequestsInFlight) <= limiter_capacity
    /\ (\A c \in DOMAIN embed_calls : embed_calls[c].pc \in {"returned", "raised"})
          => limiter_in_use = 0

\* A call has raised after a failed request while another call's request is
\* in flight and holds a slot.
C20_Witness ==
    /\ \E c \in DOMAIN embed_calls :
          embed_calls[c].pc = "raised" /\ embed_calls[c].exc = "RuntimeError"
    /\ RequestsInFlight # {}
    /\ limiter_in_use = limiter_capacity

----------------------------------------------------------------------------
\* The batch request of a call has raised: the call is in the retry loop or
\* has left it, or it has raised after its only request.
BatchFailed(call) ==
    \/ call.pc \in {"acquire_item", "item_call"}
    \/ Len(call.sent) > 1
    \/ call.pc = "raised" /\ Len(call.sent) = 1

\* C21: after a failed batch request for two or more texts the texts are
\* requested one by one in input order; when every one returns, the call
\* returns one embedding per text in input order; at the first one that
\* raises, the call raises RuntimeError and no later text is requested.
\* With one text a failed batch request raises RuntimeError with no retry.
\* No call sends more than 1 + len(texts) requests.
C21_PerItemRetry ==
    \A c \in DOMAIN embed_calls :
        LET call == embed_calls[c]
            n == Len(call.texts)
        IN  /\ call.requests = Len(call.sent)
            /\ call.requests <= 1 + n
            /\ \A k \in DOMAIN call.sent :
                  call.sent[k] = IF k = 1 THEN call.texts ELSE <<call.texts[k - 1]>>
            /\ Len(call.sent) > 1 => n >= 2
            /\ (BatchFailed(call) /\ n >= 2 /\ call.pc = "returned") =>
                  /\ Len(call.sent) = 1 + n
                  /\ call.all_embeddings = [i \in 1 .. n |-> embedding(call.texts[i])]
            /\ (BatchFailed(call) /\ n >= 2 /\ call.pc = "raised") =>
                  /\ call.exc = "RuntimeError"
                  /\ Len(call.sent) = 1 + call.idx
                  /\ Len(call.all_embeddings) = call.idx - 1
            /\ (BatchFailed(call) /\ n = 1) =>
                  /\ call.pc = "raised"
                  /\ call.exc = "RuntimeError"
                  /\ Len(call.sent) = 1

\* A call with two texts has returned after its batch request raised and both
\* retries returned, and another has raised at its first retry.
C21_Witness ==
    /\ \E c \in DOMAIN embed_calls :
          /\ embed_calls[c].pc = "returned"
          /\ Len(embed_calls[c].texts) >= 2
          /\ Len(embed_calls[c].sent) = 1 + Len(embed_calls[c].texts)
    /\ \E c \in DOMAIN embed_calls :
          /\ embed_calls[c].pc = "raised"
          /\ Len(embed_calls[c].texts) >= 2
          /\ Len(embed_calls[c].sent) = 2

\* The embedding of a call could not be generated: its batch request raised
\* and no retry loop ran to its end.
GenerationFailed(call) == call.pc = "raised" /\ call.requests >= 1

\* C22: with the client configured, the exception that leaves a call whose
\* embedding generation failed is a RuntimeError, whatever the list of texts,
\* the empty list included.
C22_FailureIsRuntimeError ==
    \A c \in DOMAIN embed_calls :
        (client_configured /\ GenerationFailed(embed_calls[c]))
            => embed_calls[c].exc = "RuntimeError"

----------------------------------------------------------------------------
\* The ingest call made for a result has returned: its knowledge-graph record
\* is in the storage.
Ingested(store, result) ==
    \E k \in store.custom_kg :
        /\ k.full_doc_id = compute_mdhash_id(result.file_content, "doc-")
        /\ k.chunks = result.chunks

\* A store_file_result call for a result with chunks ends in this step.
StoreCallEnds(s) ==
    /\ storage_task[s].pc = "store_file_result"
    /\ storage_task[s].result.chunks # <<>>
    /\ storage_task'[s].pc # "store_file_result"

\* C30: for a FileResult with chunks the status record is written only after
\* the ingest call has returned and the full document only after the status
\* record: a status record has its knowledge-graph record, a full document has
\* its status record.  When the ingest call raises, the call writes neither a
\* status record nor a full document and stored_count is not incremented; the
\* count is incremented only after all three writes.
C30_StatusAfterIngest ==
    /\ [](\A d \in DOMAIN rag.doc_status : \E k \in rag.custom_kg : k.full_doc_id = d)
    /\ [](\A d \in DOMAIN rag.full_docs : d \in DOMAIN rag.doc_status)
    /\ [][\A s \in DOMAIN storage_task : StoreCallEnds(s) =>
            LET result == storage_task[s].result
                doc_id == compute_mdhash_id(result.file_content, "doc-")
            IN  /\ ~Ingested(rag', result) =>
                      /\ rag'.doc_status = rag.doc_status
                      /\ rag'.full_docs = rag.full_docs
                      /\ stored_count' = stored_count
                /\ rag'.doc_status # rag.doc_status => Ingested(rag', result)
                /\ rag'.full_docs # rag.full_docs =>
                      /\ doc_id \in DOMAIN rag'.doc_status
                      /\ rag'.doc_status[doc_id].file_path = result.file_path
                /\ stored_count' # stored_count =>
                      /\ stored_count' = stored_count + 1
                      /\ Ingested(rag', result)
                      /\ doc_id \in DOMAIN rag'.doc_status
                      /\ rag'.doc_status[doc_id].status = "PROCESSED"
                      /\ doc_id \in DOMAIN rag'.full_docs]_vars

\* One file with chunks has been stored with its status and its full
\* document, and the ingest call of another file with chunks has raised.
C30_Witness ==
    /\ stored_count = 1
    /\ DOMAIN rag.full_docs # {}
    /\ \E result \in store_errors :
          result.chunks # <<>> /\ ~Ingested(rag, result)

----------------------------------------------------------------------------
\* _load_embedding_components and get_tokenizer,
\* src/repo_graphrag/initialization/initializer.py.  Several calls of
\* _load_embedding_components run on one event loop; a call suspends while it
\* waits for the lock and while asyncio.to_thread loads the model or the
\* tokenizer, and a load returns or raises.

Providers == {"huggingface", "openai", "other"}

\* What AutoModel.from_pretrained and AutoTokenizer.from_pretrained return.
Model == [model |-> "embedding_model_name"]
Tokenizer == [tokenizer |-> "embedding_tokenizer_model_name"]

\* A call of _load_embedding_components that has not run yet.
new_load_call == [pc |-> "start", ret |-> "none", exc |-> "none", path |-> "none"]

LoadInit ==
    /\ PipelineIdle
    /\ EmbedIdle
    /\ LockIdle
    /\ ServerIdle
    /\ embedding_model_provider \in Providers
    /\ hf_hub_offline \in BOOLEAN
    /\ emb_model = None
    /\ tokenizer = None
    /\ embed_init_lock = None
    /\ cached_embedding_func = "unset"
    /\ \E n \in 1 .. MaxCallers : load_calls = [c \in 1 .. n |-> new_load_call]
    /\ loads_succeeded = 0
    /\ tokenizer_result = "none"

\* lines 47-54: the lock shared by the calls, created by the first of them.
shared_lock ==
    IF embed_init_lock = None THEN [holder |-> 0, waiters |-> <<>>]
    ELSE embed_init_lock

\* A lock that stays held when its section is left.
released_never(lock) == lock

\* asyncio.Lock.release: the lock is free, its waiters stay in line.
released(lock) == [lock EXCEPT !.holder = 0]

\* A section that loads without looking at the cache.
section_cached_unchecked == FALSE

\* line 58: the check made again once the lock is held.
section_cached == cached_embedding_func # "unset"

\* lines 56-99: call c holds the lock, the calls in waiters wait for it.  The
\* section runs up to its first suspension: it returns the cached function,
\* starts the load of the configured provider, or raises ValueError for a
\* provider it does not know; the lock is released when the section is left.
enter_section(c, waiters) ==
    LET lock == [holder |-> c, waiters |-> waiters]
    IN  IF section_cached
        THEN /\ load_calls' = [load_calls EXCEPT ![c] =
                    [@ EXCEPT !.pc = "returned", !.ret = cached_embedding_func,
                              !.path = "double_check"]]
             /\ embed_init_lock' = released(lock)
             /\ UNCHANGED emb_model
        ELSE IF embedding_model_provider = "huggingface"
        THEN /\ load_calls' = [load_calls EXCEPT ![c].pc = "load_model"]
             /\ embed_init_lock' = lock
             /\ UNCHANGED emb_model
        ELSE IF embedding_model_provider = "openai"
        THEN /\ load_calls' = [load_calls EXCEPT ![c].pc = "load_tokenizer"]
             /\ embed_init_lock' = lock
             /\ emb_model' = None
        ELSE /\ load_calls' = [load_calls EXCEPT ![c] =
                    [@ EXCEPT !.pc = "raised", !.exc = "ValueError"]]
             /\ embed_init_lock' = released(lock)
             /\ UNCHANGED emb_model

\* lines 43-56: the call starts.  With the cache set it returns at once;
\* otherwise it takes the shared lock, at once when the lock is free and
\* nobody waits for it (asyncio.Lock.acquire), else it joins the waiters.
load_start(c) ==
    /\ c \in DOMAIN load_calls
    /\ load_calls[c].pc = "start"
    /\ IF cached_embedding_func # "unset"
       THEN /\ load_calls' = [load_calls EXCEPT ![c] =
                   [@ EXCEPT !.pc = "returned", !.ret = cached_embedding_func,
                             !.path = "fast"]]
            /\ UNCHANGED <<embed_init_lock, emb_model>>
       ELSE IF shared_lock.holder = 0 /\ shared_lock.waiters = <<>>
       THEN enter_section(c, <<>>)
       ELSE /\ load_calls' = [load_calls EXCEPT ![c].pc = "acquire"]
            /\ embed_init_lock' = [shared_lock EXCEPT !.waiters = Append(@, c)]
            /\ UNCHANGED emb_model
    /\ UNCHANGED <<embedding_model_provider, hf_hub_offline, tokenizer,
                   cached_embedding_func, loads_succeeded, tokenizer_result>>
    /\ UNCHANGED outside_load

\* line 56: the lock is free and the call is the first waiter.
load_acquire(c) ==
    /\ c \in DOMAIN load_calls
    /\ load_calls[c].pc = "acquire"
    /\ embed_init_lock.holder = 0
    /\ Head(embed_init_lock.waiters) = c
    /\ enter_section(c, Tail(embed_init_lock.waiters))
    /\ UNCHANGED <<embedding_model_provider, hf_hub_offline, tokenizer,
                   cached_embedding_func, loads_succeeded, tokenizer_result>>
    /\ UNCHANGED outside_load

\* lines 65-66, 68-69: AutoModel.from_pretrained returned; the tokenizer's
\* load starts.
load_model_return(c) ==
    /\ c \in DOMAIN load_calls
    /\ load_calls[c].pc = "load_model"
    /\ emb_model' = Model
    /\ load_calls' = [load_calls EXCEPT ![c].pc = "load_tokenizer"]
    /\ UNCHANGED <<embedding_model_provider, hf_hub_offline, tokenizer,
                   embed_init_lock, cached_embedding_func, loads_succeeded,
                   tokenizer_result>>
    /\ UNCHANGED outside_load

\* lines 65, 68: AutoModel.from_pretrained raised; the exception leaves the
\* "async with" block and the call.
load_model_raise(c) ==
    /\ c \in DOMAIN load_calls
    /\ load_calls[c].pc = "load_model"
    /\ load_calls' = [load_calls EXCEPT ![c] =
            [@ EXCEPT !.pc = "raised", !.exc = "OSError"]]
    /\ embed_init_lock' = released(embed_init_lock)
    /\ UNCHANGED <<embedding_model_provider, hf_hub_offline, emb_model, tokenizer,
                   cached_embedding_func, loads_succeeded, tokenizer_result>>
    /\ UNCHANGED outside_load

\* lines 79, 95: the function cached for the provider.
embedding_func_of(provider) ==
    IF provider = "huggingface" THEN "hf_embedding_func" ELSE "openai_embed"

\* lines 66-79, 86-101: AutoTokenizer.from_pretrained returned (and, for
\* OpenAI when not offline, save_pretrained); the function is cached and
\* returned.
load_tokenizer_return(c) ==
    /\ c \in DOMAIN load_calls
    /\ load_calls[c].pc = "load_tokenizer"
    /\ tokenizer' = Tokenizer
    /\ cached_embedding_func' = embedding_func_of(embedding_model_provider)
    /\ load_calls' = [load_calls EXCEPT ![c] =
            [@ EXCEPT !.pc = "returned", !.ret = cached_embedding_func',
                      !.path = "loaded"]]
    /\ embed_init_lock' = released(embed_init_lock)
    /\ loads_succeeded' = loads_succeeded + 1
    /\ UNCHANGED <<embedding_model_provider, hf_hub_offline, emb_model,
                   tokenizer_result>>
    /\ UNCHANGED outside_load

\* lines 66, 69, 86, 89: AutoTokenizer.from_pretrained raised.
load_tokenizer_raise(c) ==
    /\ c \in DOMAIN load_calls
    /\ load_calls[c].pc = "load_tokenizer"
    /\ load_calls' = [load_calls EXCEPT ![c] =
            [@ EXCEPT !.pc = "raised", !.exc = "OSError"]]
    /\ embed_init_lock' = released(embed_init_lock)
    /\ UNCHANGED <<embedding_model_provider, hf_hub_offline, emb_model, tokenizer,
                   cached_embedding_func, loads_succeeded, tokenizer_result>>
    /\ UNCHANGED outside_load

\* lines 85-87: for OpenAI when not offline the tokenizer is assigned and
\* then saved; save_pretrained raised.
save_pretrained_raise(c) ==
    /\ c \in DOMAIN load_calls
    /\ load_calls[c].pc = "load_tokenizer"
    /\ embedding_model_provider = "openai"
    /\ ~hf_hub_offline
    /\ tokenizer' = Tokenizer
    /\ load_calls' = [load_calls EXCEPT ![c] =
            [@ EXCEPT !.pc = "raised", !.exc = "OSError"]]
    /\ embed_init_lock' = released(embed_init_lock)
    /\ UNCHANGED <<embedding_model_provider, hf_hub_offline, emb_model,
                   cached_embedding_func, loads_succeeded, tokenizer_result>>
    /\ UNCHANGED outside_load

_load_embedding_components(c) ==
    \/ load_start(c)
    \/ load_acquire(c)
    \/ load_model_return(c)
    \/ load_model_raise(c)
    \/ load_tokenizer_return(c)
    \/ load_tokenizer_raise(c)
    \/ save_pretrained_raise(c)

\* get_tokenizer, lines 165-172: what a call made now returns or raises.
get_tokenizer_outcome ==
    IF tokenizer = None
    THEN IF emb_model = None
         THEN "ValueError: Tokenizer is not available for OpenAI embedding provider"
         ELSE "ValueError: Tokenizer is not initialized (HuggingFace provider)"
    ELSE "tokenizer"

\* A call of get_tokenizer.
get_tokenizer ==
    /\ tokenizer_result' = get_tokenizer_outcome
    /\ UNCHANGED <<embedding_model_provider, hf_hub_offline, emb_model, tokenizer,
                   embed_init_lock, cached_embedding_func, load_calls,
                   loads_succeeded>>
    /\ UNCHANGED outside_load

LoadNext ==
    \/ \E c \in 1 .. MaxCallers : load_start(c)
    \/ \E c \in 1 .. MaxCallers : load_acquire(c)
    \/ \E c \in 1 .. MaxCallers : load_model_return(c)
    \/ \E c \in 1 .. MaxCallers : load_model_raise(c)
    \/ \E c \in 1 .. MaxCallers : load_tokenizer_return(c)
    \/ \E c \in 1 .. MaxCallers : load_tokenizer_raise(c)
    \/ \E c \in 1 .. MaxCallers : save_pretrained_raise(c)
    \/ get_tokenizer

LoadSpec == LoadInit /\ [][LoadNext]_vars

\* The calls inside the loading section: past the second check, before the
\* section is left.
InLoadingSection ==
    {c \in DOMAIN load_calls : load_calls[c].pc \in {"load_model", "load_tokenizer"}}

\* C23: whatever the interleaving of the calls, at most one is inside the
\* loading section, and it holds the lock; no load starts once a load has
\* succeeded, so at most one load succeeds; every call that returns returns
\* the cached function, the same for all.
C23_SingleFlightLoad ==
    /\ [](/\ Cardinality(InLoadingSection) <= 1
          /\ \A c \in InLoadingSection : embed_init_lock.holder = c
          /\ loads_succeeded <= 1
          /\ \A c \in DOMAIN load_calls : load_calls[c].pc = "returned" =>
                /\ load_calls[c].ret = cached_embedding_func
                /\ load_calls[c].ret # "unset"
          /\ \A c, d \in DOMAIN load_calls :
                (load_calls[c].pc = "returned" /\ load_calls[d].pc = "returned")
                    => load_calls[c].ret = load_calls[d].ret)
    /\ [][cached_embedding_func # "unset" =>
            \A c \in DOMAIN load_calls :
                load_calls'[c].pc \in {"load_model", "load_tokenizer"}
                    => load_calls[c].pc \in {"load_model", "load_tokenizer"}]_vars

\* One call has loaded the components while another waited for the lock and
\* returned the cached function from the second check.
C23_Witness ==
    /\ \E c \in DOMAIN load_calls : load_calls[c].path = "loaded"
    /\ \E c \in DOMAIN load_calls : load_calls[c].path = "double_check"
    /\ loads_succeeded = 1

\* C24: get_tokenizer serves the HuggingFace provider only: it returns a
\* tokenizer only once a HuggingFace initialisation has completed, and it
\* raises ValueError whenever the configured provider is OpenAI, also after
\* _load_embedding_components has completed.
C24_TokenizerOnlyForHuggingFace ==
    /\ tokenizer_result = "tokenizer" =>
          /\ embedding_model_provider = "huggingface"
          /\ cached_embedding_func = "hf_embedding_func"
    /\ embedding_model_provider = "openai" => tokenizer_result # "tokenizer"

----------------------------------------------------------------------------
\* create_lock_file, remove_lock_file and check_lock_file_exists,
\* src/repo_graphrag/utils/lock_manager.py.  The functions are synchronous;
\* the lock file is shared by the processes that work on one storage
\* directory, so the calls of different processes interleave between their
\* file system operations.

LockOps == {"create_lock_file", "remove_lock_file", "check_lock_file_exists"}

\* A call of a lock manager function that has not run yet.
new_lock_call(op) ==
    [op |-> op, pc |-> "start", before |-> None, after |-> None,
     ret |-> "none", seq |-> TRUE]

LockInit ==
    /\ PipelineIdle
    /\ EmbedIdle
    /\ LoadIdle
    /\ ServerIdle
    /\ storage_dir_exists \in BOOLEAN
    /\ lock_file \in (IF storage_dir_exists THEN {None, [pid |-> 0]} ELSE {None})
    /\ \E n \in 1 .. MaxCallers :
          lock_calls \in [1 .. n -> {new_lock_call(op) : op \in LockOps}]

\* The calls that are between two of their file system operations.
MidCall == {q \in DOMAIN lock_calls : lock_calls[q].pc \in {"open", "remove"}}

\* The calls after a step of process p that leaves p's call as call: the
\* calls that were between two operations have run concurrently with p's.
after_step(p, call) ==
    [q \in DOMAIN lock_calls |->
        IF q = p THEN call
        ELSE IF q \in MidCall THEN [lock_calls[q] EXCEPT !.seq = FALSE]
        ELSE lock_calls[q]]

\* An os.path.exists that never sees the file.
os_path_exists_never(file) == FALSE

\* os.path.exists(lock_file_path), lines 22, 52, 76.
os_path_exists(file) == file # None

\* create_lock_file, lines 19-24: the file is looked up; the call returns
\* False when it is there.
create_lock_file_exists(p) ==
    /\ p \in DOMAIN lock_calls
    /\ lock_calls[p].op = "create_lock_file"
    /\ lock_calls[p].pc = "start"
    /\ lock_calls' = after_step(p,
          IF os_path_exists(lock_file)
          THEN [lock_calls[p] EXCEPT !.pc = "done", !.ret = "False",
                    !.before = lock_file, !.after = lock_file,
                    !.seq = (MidCall \ {p} = {})]
          ELSE [lock_calls[p] EXCEPT !.pc = "open", !.before = lock_file,
                    !.seq = (MidCall \ {p} = {})])
    /\ UNCHANGED <<storage_dir_exists, lock_file>>
    /\ UNCHANGED outside_lock

\* create_lock_file, lines 27-36: open(lock_file_path, 'w') creates the file,
\* or truncates the one that is there, and the process id is written; without
\* the directory open raises and the call returns False.
create_lock_file_open(p) ==
    /\ p \in DOMAIN lock_calls
    /\ lock_calls[p].pc = "open"
    /\ lock_file' = IF storage_dir_exists THEN [pid |-> p] ELSE lock_file
    /\ lock_calls' = after_step(p,
          [lock_calls[p] EXCEPT !.pc = "done",
                !.ret = IF storage_dir_exists THEN "True" ELSE "False",
                !.after = lock_file'])
    /\ UNCHANGED storage_dir_exists
    /\ UNCHANGED outside_lock

\* remove_lock_file, lines 49-54: the file is looked up; the call returns
\* False when it is not there.
remove_lock_file_exists(p) ==
    /\ p \in DOMAIN lock_calls
    /\ lock_calls[p].op = "remove_lock_file"
    /\ lock_calls[p].pc = "start"
    /\ lock_calls' = after_step(p,
          IF os_path_exists(lock_file)
          THEN [lock_calls[p] EXCEPT !.pc = "remove", !.before = lock_file,
                    !.seq = (MidCall \ {p} = {})]
          ELSE [lock_calls[p] EXCEPT !.pc = "done", !.ret = "False",
                    !.before = lock_file, !.after = lock_file,
                    !.seq = (MidCall \ {p} = {})])
    /\ UNCHANGED <<storage_dir_exists, lock_file>>
    /\ UNCHANGED outside_lock

\* remove_lock_file, lines 57-62: os.remove deletes the file; when the file
\* is gone it raises and the call returns False.
remove_lock_file_remove(p) ==
    /\ p \in DOMAIN lock_calls
    /\ lock_calls[p].pc = "remove"
    /\ lock_file' = None
    /\ lock_calls' = after_step(p,
          [lock_calls[p] EXCEPT !.pc = "done",
                !.ret = IF lock_file # None THEN "True" ELSE "False",
                !.after = None])
    /\ UNCHANGED storage_dir_exists
    /\ UNCHANGED outside_lock

\* check_lock_file_exists, lines 74-84.
check_lock_file_exists(p) ==
    /\ p \in DOMAIN lock_calls
    /\ lock_calls[p].op = "check_lock_file_exists"
    /\ lock_calls[p].pc = "start"
    /\ lock_calls' = after_step(p,
          [lock_calls[p] EXCEPT !.pc = "done",
                !.ret = IF os_path_exists(lock_file) THEN "True" ELSE "False",
                !.before = lock_file, !.after = lock_file,
                !.seq = (MidCall \ {p} = {})])
    /\ UNCHANGED <<storage_dir_exists, lock_file>>
    /\ UNCHANGED outside_lock

create_lock_file(p) == create_lock_file_exists(p) \/ create_lock_file_open(p)

remove_lock_file(p) == remove_lock_file_exists(p) \/ remove_lock_file_remove(p)

LockNext ==
    \/ \E p \in 1 .. MaxCallers : create_lock_file_exists(p)
    \/ \E p \in 1 .. MaxCallers : create_lock_file_open(p)
    \/ \E p \in 1 .. MaxCallers : remove_lock_file_exists(p)
    \/ \E p \in 1 .. MaxCallers : remove_lock_file_remove(p)
    \/ \E p \in 1 .. MaxCallers : check_lock_file_exists(p)

LockSpec == LockInit /\ [][LockNext]_vars

\* The create_lock_file calls that returned True.
LockHolders ==
    {p \in DOMAIN lock_calls :
        lock_calls[p].op = "create_lock_file" /\ lock_calls[p].ret = "True"}

\* No remove_lock_file call has begun.
NoRemove ==
    \A p \in DOMAIN lock_calls :
        lock_calls[p].op = "remove_lock_file" => lock_calls[p].pc = "start"

\* C25: the storage lock is exclusive: of the concurrent create_lock_file
\* calls on one storage directory, with no remove_lock_file in between, at
\* most one returns True.
C25_LockExclusive == NoRemove => Cardinality(LockHolders) <= 1

\* The calls that have returned and ran with no other call in between their
\* steps, on a storage directory that exists.
SequentialCalls ==
    {p \in DOMAIN lock_calls :
        lock_calls[p].pc = "done" /\ lock_calls[p].seq /\ storage_dir_exists}

----------------------------------------------------------------------------
\* The MCP server, src/server.py, started by run_mcp of src/lightragcoder.py
\* or by the main block of server.py.  The tools are coroutines run on the
\* server's event loop: an invocation suspends while it awaits
\* create_graph_storage, initialize_rag, aquery, finalize_storages or
\* llm_response_cache.drop, and other invocations run meanwhile.  A tool is
\* invoked by a call of its coroutine function once the start-up code has
\* set the globals: by the server for a registered tool, or by a program
\* that has imported the module.

\* The functions decorated with dynamic_tool, in source order (lines 118,
\* 190, 280).
DeclaredTools == <<"graph_update", "graph_plan", "graph_query">>

Entries == {"run_mcp", "server_main"}

\* args.storage_dir of "lightragcoder mcp".
StorageDir == [dir |-> "storage_dir"]

\* The process of the server, as written to a lock file it makes.
ServerPid == 1

\* A tool invocation that has not run yet.
new_tool_call(tool) ==
    [tool |-> tool, pc |-> "invoke", state |-> "none", result |-> "none",
     exc |-> "none", pending |-> "none", lock_seen |-> FALSE,
     accessed |-> FALSE, initialized |-> FALSE]

ServerInit ==
    /\ PipelineIdle
    /\ EmbedIdle
    /\ LoadIdle
    /\ entry \in Entries
    /\ startup = "import"
    /\ pending_tools = <<>>
    /\ mcp_tools = <<>>
    /\ storage_desc = None
    /\ storage_dir_path = None
    /\ read_dir_list = <<>>
    /\ server_rag = None
    /\ finalized = {}
    /\ source_dirs_setting \in {<<>>, <<"source_dir">>}
    /\ storage_dir_exists \in BOOLEAN
    /\ lock_file \in (IF storage_dir_exists THEN {None, [pid |-> 0]} ELSE {None})
    /\ lock_calls = <<>>
    /\ \E n \in 1 .. MaxCallers :
          tool_calls \in [1 .. n -> {new_tool_call(DeclaredTools[i]) : i \in DOMAIN DeclaredTools}]

\* dynamic_tool, lines 75-90: while server.py is imported each decorated
\* function is appended to pending_tools and is not registered.
dynamic_tool ==
    /\ startup = "import"
    /\ pending_tools' = Append(pending_tools, DeclaredTools[Len(pending_tools) + 1])
    /\ startup' = IF Len(pending_tools') = Len(DeclaredTools) THEN "imported" ELSE "import"
    /\ UNCHANGED <<entry, mcp_tools, storage_desc, storage_dir_path, read_dir_list,
                   server_rag, finalized, source_dirs_setting, tool_calls>>
    /\ UNCHANGED <<storage_dir_exists, lock_file>>
    /\ UNCHANGED outside_server

\* lines 98-104: the description a tool is registered with.
dynamic_description(desc, tool) ==
    IF desc # None THEN <<desc, tool>> ELSE <<tool>>

\* register_dynamic_tools, lines 96-113: the tools registered for the
\* pending declarations.
register_dynamic_tools(pending, desc) ==
    [i \in DOMAIN pending |->
        [name |-> pending[i], description |-> dynamic_description(desc, pending[i])]]

\* run_mcp, src/lightragcoder.py lines 99-120: the globals of server are set
\* and mcp.run is called.
run_mcp ==
    /\ startup = "imported"
    /\ entry = "run_mcp"
    /\ read_dir_list' = source_dirs_setting
    /\ storage_dir_path' = StorageDir
    /\ startup' = "serving"
    /\ UNCHANGED <<entry, pending_tools, mcp_tools, storage_desc, server_rag,
                   finalized, source_dirs_setting, tool_calls>>
    /\ UNCHANGED <<storage_dir_exists, lock_file>>
    /\ UNCHANGED outside_server

\* The main block of server.py, lines 367-375: the globals are set, the
\* pending tools are registered and cleared (line 116), mcp.run is called.
server_main ==
    /\ startup = "imported"
    /\ entry = "server_main"
    /\ read_dir_list' = <<>>
    /\ storage_dir_path' = None
    /\ mcp_tools' = mcp_tools \o register_dynamic_tools(pending_tools, storage_desc)
    /\ pending_tools' = <<>>
    /\ startup' = "serving"
    /\ UNCHANGED <<entry, storage_desc, server_rag, finalized,
                   source_dirs_setting, tool_calls>>
    /\ UNCHANGED <<storage_dir_exists, lock_file>>
    /\ UNCHANGED outside_server

\* A tool that never finds an update in progress.
update_in_progress_ignored(path) == FALSE

\* lines 141, 220, 309: check_lock_file_exists(storage_dir_path).  Without a
\* path os.path.join raises inside check_lock_file_exists, which returns
\* False.
update_in_progress(path) == path # None /\ lock_file # None

\* create_graph_storage, called: the lock file of the storage directory
\* while the storage is built.  The advisory lock is taken in the call, with
\* no suspension after the tool's check.
create_graph_storage_locked == [pid |-> ServerPid]

\* create_graph_storage, left by a return or an exception: the lock file is
\* removed.
create_graph_storage_unlocked == None

\* The result a tool returns.
tool_returns(call, state, result) ==
    [call EXCEPT !.pc = "returned", !.state = state, !.result = result]

\* The exception that leaves a tool.
tool_raises(call, exc) == [call EXCEPT !.pc = "raised", !.exc = exc]

\* graph_update, lines 140-162: with the lock file present the tool returns
\* Failed.  Otherwise it reads the source directories from the settings and
\* calls create_graph_storage, which takes the storage lock and builds the
\* storage; without a storage path os.path.exists raises in the try block
\* and the tool returns Failed (lines 177-185).
graph_update_invoke(t) ==
    /\ startup = "serving"
    /\ t \in DOMAIN tool_calls
    /\ tool_calls[t].tool = "graph_update"
    /\ tool_calls[t].pc = "invoke"
    /\ LET call == [tool_calls[t] EXCEPT
                        !.lock_seen = (storage_dir_path # None /\ lock_file # None)]
       IN  IF update_in_progress(storage_dir_path)
           THEN /\ tool_calls' = [tool_calls EXCEPT ![t] =
                       tool_returns(call, "Failed", "GRAPH_STORAGE_UPDATE_PROCESSING")]
                /\ UNCHANGED <<read_dir_list, lock_file, storage_dir_exists>>
           ELSE IF storage_dir_path = None
           THEN /\ tool_calls' = [tool_calls EXCEPT ![t] =
                       tool_returns(call, "Failed", "GENERAL_ERROR")]
                /\ UNCHANGED <<read_dir_list, lock_file, storage_dir_exists>>
           ELSE /\ read_dir_list' = IF source_dirs_setting # <<>>
                                    THEN source_dirs_setting ELSE read_dir_list
                /\ tool_calls' = [tool_calls EXCEPT ![t] =
                       [call EXCEPT !.pc = "create_graph_storage", !.accessed = TRUE]]
                /\ storage_dir_exists' = TRUE
                /\ lock_file' = create_graph_storage_locked
    /\ UNCHANGED <<entry, startup, pending_tools, mcp_tools, storage_desc,
                   storage_dir_path, server_rag, finalized, source_dirs_setting>>
    /\ UNCHANGED outside_server

\* lines 162-175: create_graph_storage returned, the lock given back.
graph_update_return(t) ==
    /\ t \in DOMAIN tool_calls
    /\ tool_calls[t].pc = "create_graph_storage"
    /\ lock_file' = create_graph_storage_unlocked
    /\ tool_calls' = [tool_calls EXCEPT ![t] =
            tool_returns(@, "SUCCESS", "GRAPH_STORAGE_RESULT")]
    /\ UNCHANGED <<entry, startup, pending_tools, mcp_tools, storage_desc,
                   storage_dir_path, read_dir_list, server_rag, finalized,
                   source_dirs_setting>>
    /\ UNCHANGED storage_dir_exists
    /\ UNCHANGED outside_server

\* lines 162, 177-185: create_graph_storage raised, the lock given back.
graph_update_raise(t) ==
    /\ t \in DOMAIN tool_calls
    /\ tool_calls[t].pc = "create_graph_storage"
    /\ lock_file' = create_graph_storage_unlocked
    /\ tool_calls' = [tool_calls EXCEPT ![t] =
            tool_returns(@, "Failed", "GENERAL_ERROR")]
    /\ UNCHANGED <<entry, startup, pending_tools, mcp_tools, storage_desc,
                   storage_dir_path, read_dir_list, server_rag, finalized,
                   source_dirs_setting>>
    /\ UNCHANGED storage_dir_exists
    /\ UNCHANGED outside_server

graph_update(t) ==
    \/ graph_update_invoke(t)
    \/ graph_update_return(t)
    \/ graph_update_raise(t)

\* graph_plan and graph_query, lines 219-239 and 308-326: with the lock file
\* present the tool returns Failed; without a storage path os.path.exists
\* raises TypeError; without the storage directory the tool returns Failed;
\* otherwise it awaits initialize_rag.
graph_read_invoke(t) ==
    /\ startup = "serving"
    /\ t \in DOMAIN tool_calls
    /\ tool_calls[t].tool \in {"graph_plan", "graph_query"}
    /\ tool_calls[t].pc = "invoke"
    /\ LET call == [tool_calls[t] EXCEPT
                        !.lock_seen = (storage_dir_path # None /\ lock_file # None)]
       IN  tool_calls' = [tool_calls EXCEPT ![t] =
               IF update_in_progress(storage_dir_path)
               THEN tool_returns(call, "Failed", "GRAPH_STORAGE_UPDATE_PROCESSING")
               ELSE IF storage_dir_path = None
               THEN tool_raises(call, "TypeError")
               ELSE IF ~storage_dir_exists
               THEN tool_returns(call, "Failed", "STORAGE_NOT_FOUND_ERROR")
               ELSE [call EXCEPT !.pc = "initialize_rag", !.accessed = TRUE]]
    /\ UNCHANGED <<entry, startup, pending_tools, mcp_tools, storage_desc,
                   storage_dir_path, read_dir_list, server_rag, finalized,
                   source_dirs_setting>>
    /\ UNCHANGED <<storage_dir_exists, lock_file>>
    /\ UNCHANGED outside_server

\* lines 239-253, 326-339: initialize_rag returned; the instance is bound to
\* the global rag and its aquery is awaited.
initialize_rag_return(t) ==
    /\ t \in DOMAIN tool_calls
    /\ tool_calls[t].pc = "initialize_rag"
    /\ server_rag' = [instance |-> t]
    /\ tool_calls' = [tool_calls EXCEPT ![t].pc = "aquery",
                                        ![t].initialized = TRUE]
    /\ UNCHANGED <<entry, startup, pending_tools, mcp_tools, storage_desc,
                   storage_dir_path, read_dir_list, finalized, source_dirs_setting>>
    /\ UNCHANGED <<storage_dir_exists, lock_file>>
    /\ UNCHANGED outside_server

\* lines 239, 326: initialize_rag raised, outside any try block.
initialize_rag_raise(t) ==
    /\ t \in DOMAIN tool_calls
    /\ tool_calls[t].pc = "initialize_rag"
    /\ tool_calls' = [tool_calls EXCEPT ![t] = tool_raises(@, "Exception")]
    /\ UNCHANGED <<entry, startup, pending_tools, mcp_tools, storage_desc,
                   storage_dir_path, read_dir_list, server_rag, finalized,
                   source_dirs_setting>>
    /\ UNCHANGED <<storage_dir_exists, lock_file>>
    /\ UNCHANGED outside_server

\* The finally block is entered (lines 254-255, 340-341) with outcome the
\* exception of aquery or "none": finalize_storages is called on what the
\* global rag is bound to now; with the name unbound NameError is raised.
enter_finally(t, outcome) ==
    IF server_rag \in {None, [unbound |-> TRUE]}
    THEN /\ tool_calls' = [tool_calls EXCEPT ![t] = tool_raises(@, "NameError")]
         /\ UNCHANGED finalized
    ELSE /\ tool_calls' = [tool_calls EXCEPT ![t].pc = "finalize_storages",
                                             ![t].pending = outcome]
         /\ finalized' = finalized \cup {server_rag.instance}

\* lines 250-255, 336-341: aquery returned.
aquery_return(t) ==
    /\ t \in DOMAIN tool_calls
    /\ tool_calls[t].pc = "aquery"
    /\ enter_finally(t, "none")
    /\ UNCHANGED <<entry, startup, pending_tools, mcp_tools, storage_desc,
                   storage_dir_path, read_dir_list, server_rag, source_dirs_setting>>
    /\ UNCHANGED <<storage_dir_exists, lock_file>>
    /\ UNCHANGED outside_server

\* lines 250-255, 336-341: aquery raised.
aquery_raise(t) ==
    /\ t \in DOMAIN tool_calls
    /\ tool_calls[t].pc = "aquery"
    /\ enter_finally(t, "Exception")
    /\ UNCHANGED <<entry, startup, pending_tools, mcp_tools, storage_desc,
                   storage_dir_path, read_dir_list, server_rag, source_dirs_setting>>
    /\ UNCHANGED <<storage_dir_exists, lock_file>>
    /\ UNCHANGED outside_server

\* lines 255-258, 341-344: finalize_storages returned; the cache of what the
\* global rag is bound to now is dropped.
finalize_storages_return(t) ==
    /\ t \in DOMAIN tool_calls
    /\ tool_calls[t].pc = "finalize_storages"
    /\ tool_calls' = [tool_calls EXCEPT ![t] =
            IF server_rag = [unbound |-> TRUE]
            THEN tool_raises(@, "NameError")
            ELSE [@ EXCEPT !.pc = "drop"]]
    /\ UNCHANGED <<entry, startup, pending_tools, mcp_tools, storage_desc,
                   storage_dir_path, read_dir_list, server_rag, finalized,
                   source_dirs_setting>>
    /\ UNCHANGED <<storage_dir_exists, lock_file>>
    /\ UNCHANGED outside_server

\* lines 258-278, 344-364: the drop returned; "del rag" unbinds the global,
\* or raises NameError when it is unbound; then the exception of aquery goes
\* on, or the tool returns SUCCESS.
drop_return(t) ==
    /\ t \in DOMAIN tool_calls
    /\ tool_calls[t].pc = "drop"
    /\ IF server_rag = [unbound |-> TRUE]
       THEN /\ tool_calls' = [tool_calls EXCEPT ![t] = tool_raises(@, "NameError")]
            /\ UNCHANGED server_rag
       ELSE /\ server_rag' = [unbound |-> TRUE]
            /\ tool_calls' = [tool_calls EXCEPT ![t] =
                   IF @.pending # "none" THEN tool_raises(@, @.pending)
                   ELSE tool_returns(@, "SUCCESS", "plan or answer")]
    /\ UNCHANGED <<entry, startup, pending_tools, mcp_tools, storage_desc,
                   storage_dir_path, read_dir_list, finalized, source_dirs_setting>>
    /\ UNCHANGED <<storage_dir_exists, lock_file>>
    /\ UNCHANGED outside_server

graph_read(t) ==
    \/ graph_read_invoke(t)
    \/ initialize_rag_return(t)
    \/ initialize_rag_raise(t)
    \/ aquery_return(t)
    \/ aquery_raise(t)
    \/ finalize_storages_return(t)
    \/ drop_return(t)

ServerNext ==
    \/ dynamic_tool
    \/ run_mcp
    \/ server_main
    \/ \E t \in 1 .. MaxCallers : graph_update_invoke(t)
    \/ \E t \in 1 .. MaxCallers : graph_update_return(t)
    \/ \E t \in 1 .. MaxCallers : graph_update_raise(t)
    \/ \E t \in 1 .. MaxCallers : graph_read_invoke(t)
    \/ \E t \in 1 .. MaxCallers : initialize_rag_return(t)
    \/ \E t \in 1 .. MaxCallers : initialize_rag_raise(t)
    \/ \E t \in 1 .. MaxCallers : aquery_return(t)
    \/ \E t \in 1 .. MaxCallers : aquery_raise(t)
    \/ \E t \in 1 .. MaxCallers : finalize_storages_return(t)
    \/ \E t \in 1 .. MaxCallers : drop_return(t)

ServerSpec == ServerInit /\ [][ServerNext]_vars

----------------------------------------------------------------------------
\* The invocations that are working on the storage directory: they have
\* called create_graph_storage or initialize_rag and have not ended.
Accessing ==
    {t \in DOMAIN tool_calls :
        tool_calls[t].accessed /\ tool_calls[t].pc \notin {"returned", "raised"}}

\* The graph_update invocations that are building the storage.
Building ==
    {t \in DOMAIN tool_calls : tool_calls[t].pc = "create_graph_storage"}

\* C27: a tool invoked while the lock file of the storage directory is
\* present returns state "Failed" with the update-in-progress message, calls
\* neither create_graph_storage nor initialize_rag, and changes no global
\* state, the lock file and the storage directory included.
C27_LockedToolFails ==
    /\ [](\A t \in DOMAIN tool_calls : tool_calls[t].lock_seen =>
            /\ tool_calls[t].pc = "returned"
            /\ tool_calls[t].state = "Failed"
            /\ tool_calls[t].result = "GRAPH_STORAGE_UPDATE_PROCESSING"
            /\ ~tool_calls[t].accessed)
    /\ [][\A t \in DOMAIN tool_calls :
            (/\ tool_calls[t].pc = "invoke"
             /\ tool_calls'[t].pc # "invoke"
             /\ storage_dir_path # None
             /\ lock_file # None)
                => /\ tool_calls'[t].lock_seen
                   /\ UNCHANGED <<read_dir_list, storage_dir_path, storage_desc,
                                  server_rag, finalized, pending_tools, mcp_tools,
                                  lock_file, storage_dir_exists>>]_vars

\* Two invocations of different tools have found the lock file and returned.
C27_Witness ==
    \E t, u \in DOMAIN tool_calls :
        /\ tool_calls[t].tool = "graph_update"
        /\ tool_calls[u].tool \in {"graph_plan", "graph_query"}
        /\ tool_calls[t].lock_seen /\ tool_calls[t].pc = "returned"
        /\ tool_calls[u].lock_seen /\ tool_calls[u].pc = "returned"

\* C28: while a graph_update invocation is building the storage of a
\* directory, no other invocation of graph_update, graph_plan or graph_query
\* is working on that directory.
C28_UpdateExcludesOthers ==
    \A u \in Building : Accessing \ {u} = {}

\* The registrations of a tool.
Registrations(tool) ==
    {k \in DOMAIN mcp_tools : mcp_tools[k].name = tool}

\* C29: when the server starts serving, every tool declared with
\* dynamic_tool is registered exactly once, and with the storage description
\* in its description.
C29_RegisteredBeforeServing ==
    startup = "serving" =>
        \A i \in DOMAIN DeclaredTools :
            /\ Cardinality(Registrations(DeclaredTools[i])) = 1
            /\ \A k \in Registrations(DeclaredTools[i]) :
                  Len(mcp_tools[k].description) = 2

----------------------------------------------------------------------------
\* C31: no update of a counter is lost, whatever the interleaving of the
\* workers: no step decreases a counter, processed_count is the number of
\* FileResults put on the storage queue and stored_count the number of
\* store_file_result calls that returned, at every moment and so when every
\* task has stopped.  The FileResults put on the storage queue are those
\* still in the queue and those the storage worker has taken; the
\* store_file_result calls that have returned are those made, less the one in
\* progress and those that raised.
C31_NoLostUpdates ==
    /\ [][processed_count' >= processed_count /\ stored_count' >= stored_count]_vars
    /\ [](processed_count =
            Cardinality({i \in DOMAIN storage_queue : storage_queue[i] # None})
                + BagCardinality(store_calls))
    /\ [](stored_count =
            BagCardinality(store_calls) - Cardinality(InStoreFileResult)
                - Cardinality(store_errors))

\* Two workers have processed two files, both results were stored, and every
\* task has stopped.
C31_Witness ==
    /\ AllTasksDone
    /\ parallel_num >= 2
    /\ processed_count = 2
    /\ stored_count = 2

\* C32: in every state of a run 0 <= stored_count <= processed_count <=
\* total_files.
C32_CounterOrder ==
    /\ 0 <= stored_count
    /\ stored_count <= processed_count
    /\ processed_count <= total_files

\* One file is stored, a second one is processed and not stored yet.
C32_Witness ==
    /\ stored_count = 1
    /\ processed_count = 2
    /\ total_files = 2

----------------------------------------------------------------------------
\* The positions of the work queue that hold a file, resp. a stop signal.
FilesQueued == {i \in DOMAIN processing_queue : processing_queue[i] # None}
StopsQueued == {i \in DOMAIN processing_queue : processing_queue[i] = None}

\* The workers that have taken a stop signal and left their loop.
StoppedBySignal ==
    {w \in DOMAIN worker_tasks :
        worker_tasks[w].pc = "finished" /\ ~worker_tasks[w].err}

\* C33: the producer queues every input file exactly once and after them
\* exactly parallel_num stop signals: in the work queue no stop signal is
\* ahead of a file, every file is in the queue or was handed to process_file,
\* once in all, and the stop signals queued and taken are parallel_num.  No
\* worker takes a stop signal while a file is in the queue, each worker takes
\* at most one, and in a failure-free run the queue is empty once all workers
\* have left.
C33_FilesThenStopSignals ==
    /\ [](\A i \in StopsQueued : \A j \in FilesQueued : j < i)
    /\ [](producer_task # "finished" => processing_queue = <<>>)
    /\ [](producer_task = "finished" =>
            /\ \A k \in 1 .. total_files :
                  Cardinality({i \in FilesQueued :
                      processing_queue[i].code_path = <<"repo", k>>})
                    + Cardinality({it \in BagToSet(process_calls) :
                          it.code_path = <<"repo", k>>}) = 1
            /\ \A it \in BagToSet(process_calls) : CopiesIn(it, process_calls) = 1
            /\ Cardinality(FilesQueued) + BagCardinality(process_calls) = total_files
            /\ Cardinality(StopsQueued) + Cardinality(StoppedBySignal) = parallel_num)
    /\ []((~AnyFailure /\ producer_task = "finished"
              /\ \A w \in DOMAIN worker_tasks : worker_tasks[w].pc = "finished")
            => processing_queue = <<>>)
    /\ [][\A w \in DOMAIN worker_tasks :
            (worker_tasks[w].pc = "get" /\ worker_tasks'[w].pc = "finished") =>
            /\ FilesQueued = {}
            /\ Len(processing_queue') = Len(processing_queue) - 1]_vars

\* One worker has taken its stop signal while the other still processes a
\* file and the other stop signal waits in the queue.
C33_Witness ==
    /\ StoppedBySignal # {}
    /\ InProcessFile # {}
    /\ StopsQueued # {}

----------------------------------------------------------------------------
\* C34 as stated: the all-processed signal is raised by the worker whose
\* increment brings processed_count to total_files, in the step of that
\* increment.
C34_SignalAtLastIncrement ==
    [][processing_done' # processing_done =>
          /\ processed_count' = processed_count + 1
          /\ processed_count' = total_files]_vars

\* C34, amended: the all-processed signal is raised by a worker that leaves
\* its loop and finds processed_count = total_files, in a step that
\* increments nothing; it is not raised before the count is complete and it
\* stays raised.  Every worker that leaves its loop afterwards raises it
\* again, without effect.
C34_SignalAtWorkerExit ==
    /\ [][processing_done' # processing_done =>
            /\ processing_done'
            /\ \E w \in DOMAIN worker_tasks :
                  /\ worker_tasks[w].pc # "finished"
                  /\ worker_tasks'[w].pc = "finished"
            /\ processed_count = total_files
            /\ processed_count' = processed_count]_vars
    /\ [][(\E w \in DOMAIN worker_tasks :
                /\ worker_tasks[w].pc # "finished"
                /\ worker_tasks'[w].pc = "finished")
            => processing_done' = (processed_count = total_files \/ processing_done)]_vars

\* Both workers have left their loops after the last file was counted, so
\* both have raised the signal.
C34_Witness ==
    /\ processing_done
    /\ total_files >= 1
    /\ Cardinality(StoppedBySignal) = 2

----------------------------------------------------------------------------
\* The input files for which process_file returns at least one chunk.
FilesWithChunks ==
    {it \in Range(code_dict_items) :
        process_file_can_return(it) /\ process_file(it).chunks # <<>>}

\* The document-status records in the storage.
StatusRecords == {rag.doc_status[d] : d \in DOMAIN rag.doc_status}

\* A failure-free run has returned.
FailureFreeRunReturned == driver = "returned" /\ ~AnyFailure

\* C35 as stated: after a failure-free run every input file with a chunk has
\* a document-status record of its own, with its path as file_path; distinct
\* files share no record.
C35_OwnStatusRecord ==
    FailureFreeRunReturned =>
        /\ \A it \in FilesWithChunks :
              \E rec \in StatusRecords : rec.file_path = it.code_path
        /\ Cardinality(DOMAIN rag.doc_status) = Cardinality(FilesWithChunks)

\* C35, amended: after a failure-free run there is one document-status
\* record per content among the input files with a chunk.  The record of a
\* content carries that content and the path of one of the files with that
\* content; so a file whose content no other file has, has a record of its
\* own, and files with equal contents share one record, in which every write
\* but the last is overwritten.
C35_StatusRecordPerContent ==
    FailureFreeRunReturned =>
        /\ \A it \in FilesWithChunks :
              \E rec \in StatusRecords :
                  /\ rec.content = it.file_content_bytes
                  /\ rec.status = "PROCESSED"
                  /\ \E other \in FilesWithChunks :
                        /\ other.file_content_bytes = it.file_content_bytes
                        /\ rec.file_path = other.code_path
        /\ Cardinality(DOMAIN rag.doc_status)
              = Cardinality({it.file_content_bytes : it \in FilesWithChunks})
        /\ Cardinality(StatusRecords) = Cardinality(DOMAIN rag.doc_status)

\* A failure-free run over two files with the same content has returned: the
\* two files share one record.
C35_Witness ==
    /\ FailureFreeRunReturned
    /\ Cardinality(FilesWithChunks) = 2
    /\ Cardinality(DOMAIN rag.doc_status) = 1

----------------------------------------------------------------------------
\* The event loop runs every openai_embed call that can go on, and every
\* provider request ends: it returns or raises.
EmbedLiveSpec ==
    EmbedSpec /\ \A c \in 1 .. MaxCallers : WF_vars(openai_embed(c))

\* The calls that wait for a slot of the rate limiter.
WaitingForSlot ==
    {c \in DOMAIN embed_calls : embed_calls[c].pc \in {"acquire_batch", "acquire_item"}}

\* C36: a call never asks for a slot while it holds one: the slots taken are
\* those of the requests in flight, so a call that waits, for its batch
\* request or for a retry, holds none.  Hence the calls cannot deadlock on
\* the limiter, whatever its capacity: while a call waits some call can take
\* a step; and every call that waits for a slot is admitted in the end, given
\* that every provider request ends.
C36_NoNestedSlot ==
    /\ [](limiter_in_use = Cardinality(RequestsInFlight)
            /\ WaitingForSlot \cap RequestsInFlight = {})
    /\ [](WaitingForSlot # {} => ENABLED <<EmbedNext>>_vars)
    /\ \A c \in 1 .. MaxCallers :
          (c \in WaitingForSlot) ~> (c \notin WaitingForSlot)

\* With one slot, a call waits for the slot of a retry while the request of
\* another call is in flight.
C36_Witness ==
    /\ limiter_capacity = 1
    /\ \E c \in DOMAIN embed_calls : embed_calls[c].pc = "acquire_item"
    /\ RequestsInFlight # {}

----------------------------------------------------------------------------
\* The event loop runs every _load_embedding_components call that can go on,
\* and every load in a thread ends: it returns or raises.
LoadLiveSpec ==
    LoadSpec /\ \A c \in 1 .. MaxCallers : WF_vars(_load_embedding_components(c))

\* The calls that wait for the lock.
WaitingForLock == {c \in DOMAIN load_calls : load_calls[c].pc = "acquire"}

\* C37: a load that fails, the ValueError for an unknown provider included,
\* caches no function and releases the lock; so a call that waits for the
\* lock gets it in the end, and a call made while nothing is cached loads
\* again: it returns only what a load of its own has cached, or raises.
C37_FailedLoadCachesNothing ==
    /\ [][\A c \in DOMAIN load_calls :
            (load_calls[c].pc # "raised" /\ load_calls'[c].pc = "raised") =>
            /\ cached_embedding_func' = "unset"
            /\ cached_embedding_func = "unset"
            /\ embed_init_lock'.holder = 0]_vars
    /\ [](\A c \in DOMAIN load_calls :
            load_calls[c].pc \in {"raised", "returned"}
                => (embed_init_lock = None \/ embed_init_lock.holder # c))
    /\ [][\A c \in DOMAIN load_calls :
            (/\ load_calls[c].pc # "returned"
             /\ load_calls'[c].pc = "returned"
             /\ cached_embedding_func = "unset") =>
                /\ load_calls[c].pc = "load_tokenizer"
                /\ load_calls'[c].ret = cached_embedding_func'
                /\ cached_embedding_func' # "unset"]_vars
    /\ \A c \in 1 .. MaxCallers :
          (c \in WaitingForLock) ~> (c \notin WaitingForLock)

\* The load of one call has failed, and a call that came after it has loaded
\* the components and cached the function.
C37_Witness ==
    /\ \E c \in DOMAIN load_calls :
          load_calls[c].pc = "raised" /\ load_calls[c].exc = "OSError"
    /\ \E c \in DOMAIN load_calls : load_calls[c].path = "loaded"
    /\ cached_embedding_func # "unset"

----------------------------------------------------------------------------
====
